---- MODULE Spec2Model ----
(***************************************************************************)
(* Replay engine of the equity ledger (libro de socios): _apply_events of  *)
(* app/core/services/compute_service.py, with the range algebra            *)
(* (_split_block, _len_block, _consolidate) it is built on.                *)
(*                                                                         *)
(* One behaviour is one invocation of _apply_events: Init fixes the        *)
(* arguments (event list, starting nominal value, starting watermark),     *)
(* each action is one step of the function's day loop.                     *)
(*                                                                         *)
(* Nominal values are Python floats holding decimal amounts.  They are     *)
(* modelled as integers counting units of 10^-7, so that round(v, 6) and   *)
(* the exact Decimal arithmetic of the redenomination are integer          *)
(* arithmetic: 10000000 is 1.0 and 10000003 is 1.0000003.                  *)
(***************************************************************************)
EXTENDS Integers, Sequences, FiniteSets, TLC

\* ---------------------------------------------------------------- bounds
MaxEvents == 3

\* Python's None: a value outside every id, unit number and nominal value.
None == 0 - 1

Fechas == {1, 2}
\* starting nominal value and starting watermark of a call: 1.0 with nothing
\* recorded, 2.0 with a recorded total of 5
Arguments == {<<10000000, 0>>, <<20000000, 5>>}

\* ------------------------------------------------ enums.py: event types
EVENT_TYPES ==
    {"ALTA", "AMPL_EMISION", "AMPL_VALOR", "TRANSMISION", "BAJA", "RED_AMORT",
     "RED_VALOR", "PIGNORACION", "EMBARGO", "CANCELA_PIGNORACION",
     "CANCELA_EMBARGO", "LEV_GRAVAMEN", "ALZAMIENTO", "USUFRUCTO",
     "REDENOMINACION", "SUCESION"}

\* ------------------------------------------------------- range algebra
Block(s, rt, d, h) ==
    [socio_id |-> s, right_type |-> rt, rango_desde |-> d, rango_hasta |-> h,
     participaciones |-> None]

split_block(block, d, h) ==
    LET a == block.rango_desde
        b == block.rango_hasta
    IN  IF d = None \/ h = None THEN <<block>>
        ELSE IF h < a \/ d > b THEN <<block>>
        ELSE (IF d > a THEN <<[block EXCEPT !.rango_desde = a, !.rango_hasta = d - 1]>>
                       ELSE <<>>)
             \o
             (IF h < b THEN <<[block EXCEPT !.rango_desde = h + 1, !.rango_hasta = b]>>
                       ELSE <<>>)

len_block(b) == b.rango_hasta - b.rango_desde + 1

\* Python compares the right_type strings: 'embargo' < 'nuda' < 'plena' <
\* 'prenda' < 'usufructo'.
RightRank(rt) ==
    CASE rt = "embargo" -> 1
      [] rt = "nuda" -> 2
      [] rt = "plena" -> 3
      [] rt = "prenda" -> 4
      [] rt = "usufructo" -> 5

\* key=lambda x: (socio_id, right_type, rango_desde, rango_hasta), as a <=
BlockKeyLeq(x, y) ==
    \/ x.socio_id < y.socio_id
    \/ /\ x.socio_id = y.socio_id
       /\ \/ RightRank(x.right_type) < RightRank(y.right_type)
          \/ /\ x.right_type = y.right_type
             /\ \/ x.rango_desde < y.rango_desde
                \/ /\ x.rango_desde = y.rango_desde
                   /\ x.rango_hasta <= y.rango_hasta

\* x inserted into the sorted t after every element whose key is <= its own
InsertBlock(x, t) ==
    LET k == Cardinality({i \in 1..Len(t) : BlockKeyLeq(t[i], x)})
    IN  SubSeq(t, 1, k) \o <<x>> \o SubSeq(t, k + 1, Len(t))

RECURSIVE SortBlocks(_)
SortBlocks(s) ==
    IF s = <<>> THEN <<>>
    ELSE InsertBlock(s[Len(s)], SortBlocks(SubSeq(s, 1, Len(s) - 1)))

WithLen(b) == [b EXCEPT !.participaciones = len_block(b)]

RECURSIVE MergeBlocks(_, _)
MergeBlocks(merged, rest) ==
    IF rest = <<>> THEN merged
    ELSE LET b == Head(rest)
             last == merged[Len(merged)]
         IN  IF /\ b.socio_id = last.socio_id
                /\ b.right_type = last.right_type
                /\ b.rango_desde = last.rango_hasta + 1
             THEN MergeBlocks(
                      [merged EXCEPT ![Len(merged)] =
                          WithLen([last EXCEPT !.rango_hasta = b.rango_hasta])],
                      Tail(rest))
             ELSE MergeBlocks(Append(merged, WithLen(b)), Tail(rest))

consolidate(bs) ==
    LET clean == SelectSeq(bs, LAMBDA b : b.rango_desde # None /\ b.rango_hasta # None)
        sorted == SortBlocks(clean)
    IN  IF clean = <<>> THEN <<>>
        ELSE MergeBlocks(<<WithLen(sorted[1])>>, Tail(sorted))

RECURSIVE SumSeq(_)
SumSeq(s) == IF s = <<>> THEN 0 ELSE Head(s) + SumSeq(Tail(s))

\* a count that takes every block for a fully owned one
SumEveryRight(bs) == SumSeq([i \in 1..Len(bs) |-> len_block(bs[i])])

\* sum(_len_block(b) for b in blocks if b['right_type'] == 'plena')
SumPlena(bs) ==
    SumSeq([i \in 1..Len(SelectSeq(bs, LAMBDA b : b.right_type = "plena")) |->
               len_block(SelectSeq(bs, LAMBDA b : b.right_type = "plena")[i])])


\* ------------------------------------------------ enums.py: normalisation
\* (O' writes the letter O with an acute accent, o' its lower case)
EVENT_TYPE_ALIASES ==
    [t \in {"TRASMISION", "REDENOMINACIO'N", "REDENOM", "REDEN", "LEVANTAMIENTO",
            "LEVANTAMIENTO_DE_GRAVAMEN", "ALZAR_EMBARGO", "ALZAMIENTO_DE_EMBARGO"} |->
        CASE t = "TRASMISION" -> "TRANSMISION"
          [] t \in {"REDENOMINACIO'N", "REDENOM", "REDEN"} -> "REDENOMINACION"
          [] t \in {"LEVANTAMIENTO", "LEVANTAMIENTO_DE_GRAVAMEN"} -> "LEV_GRAVAMEN"
          [] t \in {"ALZAR_EMBARGO", "ALZAMIENTO_DE_EMBARGO"} -> "ALZAMIENTO"]

\* The stored types are already stripped and upper-case (create_event_generic
\* stores tipo.upper().strip()), so only the alias lookup acts here.
normalize_event_type(t) ==
    IF t \in DOMAIN EVENT_TYPE_ALIASES THEN EVENT_TYPE_ALIASES[t] ELSE t

\* ------------------------------------------------------------ the events
Event(f, t, st, sa, d, h, nv) ==
    [fecha |-> f, tipo |-> t, socio_transmite |-> st, socio_adquiere |-> sa,
     rango_desde |-> d, rango_hasta |-> h, nuevo_valor_nominal |-> nv]

\* The shapes of event the model draws its event lists from: each is an event
\* _validate_event_semantics and the REDENOMINACION triggers let into the
\* events table.  Holders 1 and 2, units 1..3; the nominal values are 1.0,
\* 3.0 and 1.0000003 (closer than 10^-6 to 1.0).
Shapes(f) ==
    {Event(f, "ALTA", None, 1, 1, 1, None),
     Event(f, "ALTA", None, 1, 1, 2, None),
     Event(f, "AMPL_EMISION", None, 2, 2, 3, None),
     Event(f, "BAJA", 1, None, 1, 1, None),
     Event(f, "TRASMISION", 1, 2, 2, 2, None),
     Event(f, "USUFRUCTO", 1, 2, 1, 1, None),
     Event(f, "PIGNORACION", 1, 2, 1, 2, None),
     Event(f, "AMPL_VALOR", None, None, None, None, 30000000),
     Event(f, "RED_VALOR", None, None, None, None, 10000000),
     Event(f, "REDENOMINACION", None, None, None, None, None),
     Event(f, "REDENOMINACION", None, None, None, None, 10000000),
     Event(f, "REDENOMINACION", None, None, None, None, 10000003),
     Event(f, "REDENOMINACION", None, None, None, None, 30000000)}

EventPool == UNION {Shapes(f) : f \in Fechas}

\* ------------------------------------------------------------- the state
VARIABLES
    tabla,                  \* the rows of the events table, in id order
    company_id,             \* argument of compute_snapshot (None: _apply_events called directly)
    hasta_fecha,            \* argument of compute_snapshot (None: no cutoff)
    events,                 \* argument: the event list, in input order
    valor_nominal_inicial,  \* argument
    part_tot_inicial,       \* argument
    pc,                     \* "dia" | "eventos" | "cierre" | "done" | "error"
    pendientes,             \* keys of by_date the day loop has not reached
    last_fecha,             \* f of the day loop (None: today's date)
    cola,                   \* events of the day the for loops still have to apply
    blocks,
    valor_nominal,
    total_part,
    resultado,              \* what the call returned (returned = FALSE until it returns)
    prev,                   \* blocks, nominal value and total before the last event or redenomination
    ultimo,                 \* the last step taken, with the event it applied
    aplicados,              \* every event applied so far, in order of application
    board_members,          \* the rows of the board_members table, in id order
    firmantes_json          \* companies.firmantes_json, parsed, by company id

vars == <<tabla, company_id, hasta_fecha, events, valor_nominal_inicial, part_tot_inicial, pc, pendientes,
          last_fecha, cola, blocks, valor_nominal, total_part, resultado,
          prev, ultimo, aplicados, board_members, firmantes_json>>

\* ------------------------------------------------------- day scheduling
\* by_date[f], with the types normalised
Day(evs, f) ==
    LET norm == [i \in 1..Len(evs) |->
                    [evs[i] EXCEPT !.tipo = normalize_event_type(evs[i].tipo)]]
    IN  SelectSeq(norm, LAMBDA e : e.fecha = f)

\* _get_range(e): (rango_desde or 0, rango_hasta or 0)
get_range(e) ==
    <<IF e.rango_desde = None THEN 0 ELSE e.rango_desde,
      IF e.rango_hasta = None THEN 0 ELSE e.rango_hasta>>

RangeLeq(x, y) ==
    \/ get_range(x)[1] < get_range(y)[1]
    \/ get_range(x)[1] = get_range(y)[1] /\ get_range(x)[2] <= get_range(y)[2]

\* sorted(..., key=_get_range): stable, equal keys keep their input order
InsertEvent(x, t) ==
    LET k == Cardinality({i \in 1..Len(t) : RangeLeq(t[i], x)})
    IN  SubSeq(t, 1, k) \o <<x>> \o SubSeq(t, k + 1, Len(t))

RECURSIVE SortByRange(_)
SortByRange(s) ==
    IF s = <<>> THEN <<>>
    ELSE InsertEvent(s[Len(s)], SortByRange(SubSeq(s, 1, Len(s) - 1)))

OfTypes(day, T) == SelectSeq(day, LAMBDA e : e.tipo \in T)

\* a day loop whose issuance loop runs before the retirement and transfer loops
AgendaAltaFirst(day) ==
    SortByRange(OfTypes(day, {"ALTA", "AMPL_EMISION"}))
    \o SortByRange(OfTypes(day, {"BAJA", "RED_AMORT"}))
    \o SortByRange(OfTypes(day, {"TRANSMISION", "SUCESION"}))
    \o OfTypes(day, {"USUFRUCTO", "PIGNORACION", "EMBARGO"})
    \o OfTypes(day, {"AMPL_VALOR", "RED_VALOR"})

\* The order in which the five for loops of one day reach the events.
Agenda(day) ==
    SortByRange(OfTypes(day, {"BAJA", "RED_AMORT"}))
    \o SortByRange(OfTypes(day, {"TRANSMISION", "SUCESION"}))
    \o SortByRange(OfTypes(day, {"ALTA", "AMPL_EMISION"}))
    \o OfTypes(day, {"USUFRUCTO", "PIGNORACION", "EMBARGO"})
    \o OfTypes(day, {"AMPL_VALOR", "RED_VALOR"})

HayReden(day) == \E i \in 1..Len(day) : day[i].tipo = "REDENOMINACION"

Min(S) == CHOOSE x \in S : \A y \in S : x <= y

\* ------------------------------------------- per-event block transitions
RECURSIVE Flatten(_)
Flatten(ss) == IF ss = <<>> THEN <<>> ELSE Head(ss) \o Flatten(Tail(ss))

\* the loop "for b in blocks: if plena of socio_transmite: split else keep"
Vacate(bs, st, d, h) ==
    Flatten([i \in 1..Len(bs) |->
        IF bs[i].right_type = "plena" /\ bs[i].socio_id = st
        THEN split_block(bs[i], d, h)
        ELSE <<bs[i]>>])

\* 1) BAJA / RED_AMORT
apply_baja(bs, ev) ==
    consolidate(Vacate(bs, ev.socio_transmite, ev.rango_desde, ev.rango_hasta))

\* 2) TRANSMISION / SUCESION
apply_transmision(bs, ev) ==
    consolidate(
        Append(consolidate(Vacate(bs, ev.socio_transmite, ev.rango_desde, ev.rango_hasta)),
               Block(ev.socio_adquiere, "plena", ev.rango_desde, ev.rango_hasta)))

\* 3) ALTA / AMPL_EMISION
apply_alta(bs, ev) ==
    consolidate(Append(bs, Block(ev.socio_adquiere, "plena", ev.rango_desde, ev.rango_hasta)))

\* if h: total_part = max(total_part, h)
Watermark(total, h) ==
    IF h # None /\ h # 0 THEN (IF h > total THEN h ELSE total) ELSE total

\* a split that would leave the full ownership of the range in place
apply_usufructo_keep(bs, ev) ==
    consolidate(
        bs \o <<Block(ev.socio_transmite, "nuda", ev.rango_desde, ev.rango_hasta),
                Block(ev.socio_adquiere, "usufructo", ev.rango_desde, ev.rango_hasta)>>)

\* 4) USUFRUCTO
apply_usufructo(bs, ev) ==
    consolidate(
        Vacate(bs, ev.socio_transmite, ev.rango_desde, ev.rango_hasta)
        \o <<Block(ev.socio_transmite, "nuda", ev.rango_desde, ev.rango_hasta),
             Block(ev.socio_adquiere, "usufructo", ev.rango_desde, ev.rango_hasta)>>)

\* a charge that would take the range out of the titleholder's full ownership
apply_gravamen_vacate(bs, ev) ==
    LET rt == IF ev.tipo = "PIGNORACION" THEN "prenda" ELSE "embargo"
    IN  consolidate(
            Append(Vacate(bs, ev.socio_transmite, ev.rango_desde, ev.rango_hasta),
                   Block(ev.socio_adquiere, rt, ev.rango_desde, ev.rango_hasta)))

\* 4) PIGNORACION / EMBARGO: holder = socio_adquiere or socio_transmite
apply_gravamen(bs, ev) ==
    LET holder == IF ev.socio_adquiere # None /\ ev.socio_adquiere # 0
                  THEN ev.socio_adquiere ELSE ev.socio_transmite
        rt == IF ev.tipo = "PIGNORACION" THEN "prenda" ELSE "embargo"
    IN  consolidate(Append(bs, Block(holder, rt, ev.rango_desde, ev.rango_hasta)))

\* AMPL_VALOR / RED_VALOR
apply_valor(vn, ev) ==
    IF ev.nuevo_valor_nominal # None THEN ev.nuevo_valor_nominal ELSE vn

\* ------------------------------------------------------- redenomination
\* round(v, 6) of a value counted in units of 10^-7 (no modelled value lies
\* halfway between two multiples of 10^-6)
Round6(v) == ((v + 5) \div 10) * 10

\* current[socio]: summed lengths of the holder's 'plena' blocks
PlenaHolders(bs) == {bs[i].socio_id : i \in {j \in 1..Len(bs) : bs[j].right_type = "plena"}}

\* holdings counted in blocks instead of units
CurrentBlocks(bs) ==
    [sid \in PlenaHolders(bs) |->
        Cardinality({i \in 1..Len(bs) : bs[i].right_type = "plena" /\ bs[i].socio_id = sid})]

Current(bs) ==
    [sid \in PlenaHolders(bs) |->
        SumPlena(SelectSeq(bs, LAMBDA b : b.socio_id = sid))]

RECURSIVE SumOver(_, _)
SumOver(f, S) ==
    IF S = {} THEN 0
    ELSE LET x == CHOOSE y \in S : TRUE IN f[x] + SumOver(f, S \ {x})

\* vn_candidates: the declared values of the day's redenominations, input order
VnCandidates(day) ==
    LET reds == SelectSeq(day, LAMBDA e :
                    e.tipo = "REDENOMINACION" /\ e.nuevo_valor_nominal # None)
    IN  [i \in 1..Len(reds) |-> reds[i].nuevo_valor_nominal]

\* a redenomination that takes the last declared value unchecked
DisagreeNever(vals) == FALSE

\* len({round(v, 6) for v in vals}) > 1
Disagree(vals) == Cardinality({Round6(vals[i]) : i \in 1..Len(vals)}) > 1

\* sorted(socios): the holders in ascending id order
RECURSIVE SortedIds(_)
SortedIds(S) == IF S = {} THEN <<>> ELSE <<Min(S)>> \o SortedIds(S \ {Min(S)})

\* ---- the Decimal arithmetic of exact[sid] (context precision 28, half-even)
DecimalPrec == 28

RECURSIVE Pow10(_)
Pow10(n) == IF n = 0 THEN 1 ELSE 10 * Pow10(n - 1)

RECURSIVE NumDigits(_)
NumDigits(i) == IF i < 10 THEN 1 ELSE 1 + NumDigits(i \div 10)

\* zeros between the decimal point and the first significant digit of r / o
RECURSIVE LeadingZeros(_, _)
LeadingZeros(r, o) == IF r * 10 >= o THEN 0 ELSE 1 + LeadingZeros(r * 10, o)

\* decimal places the quotient p / o keeps of its DecimalPrec significant digits
Places(p, o) ==
    IF p \div o > 0 THEN DecimalPrec - NumDigits(p \div o)
    ELSE DecimalPrec + LeadingZeros(p % o, o)

\* what is left of r / o after d decimal places, as a numerator over o
RECURSIVE RemAt(_, _, _)
RemAt(r, o, d) == IF d = 0 THEN r ELSE (RemAt(r, o, d - 1) * 10) % o

\* ROUND_HALF_EVEN at d places rounds r / o up
RoundsUp(r, o, d) ==
    \/ 2 * RemAt(r, o, d) > o
    \/ 2 * RemAt(r, o, d) = o /\ ((RemAt(r, o, d - 1) * 10) \div o) % 2 = 1

\* r / o rounded at hi places minus r / o rounded at lo places, in units of
\* 10^-hi (hi > lo)
Excess(r, o, hi, lo) ==
    (RemAt(r, o, lo) * Pow10(hi - lo)) \div o
    + (IF RoundsUp(r, o, hi) THEN 1 ELSE 0)
    - (IF RoundsUp(r, o, lo) THEN Pow10(hi - lo) ELSE 0)

\* exact[a] - base[a] > exact[b] - base[b], for exact = p / o computed by
\* Decimal: different remainders differ by at least 1 / o, far above the
\* rounding; equal remainders differ only by where the quotient was rounded.
FracGreater(pa, pb, o) ==
    LET ra == pa % o
        rb == pb % o
        da == Places(pa, o)
        db == Places(pb, o)
    IN  IF ra # rb THEN ra > rb
        ELSE IF ra = 0 \/ da = db THEN FALSE
        ELSE IF da > db THEN Excess(ra, o, da, db) > 0
        ELSE Excess(ra, o, db, da) < 0

\* a reallocation that stops at the floors and hands out no remainder
AllocationFloor(current, new_total, old_total) ==
    [sid \in DOMAIN current |-> (current[sid] * new_total) \div old_total]

\* base[sid] after the largest-remainder loop.  exact[sid] is the Decimal
\* quotient current[sid] * new_total / old_total: its floor is the integer
\* quotient, its fractional part the remainder over old_total as Decimal
\* rounded it.
Allocation(current, new_total, old_total) ==
    LET socios == DOMAIN current
        prod == [sid \in socios |-> current[sid] * new_total]
        floor == [sid \in socios |-> prod[sid] \div old_total]
        resto == new_total - SumOver(floor, socios)
        \* position of sid in fracs: sorted by (frac, -sid), reverse
        pos == [sid \in socios |->
                   1 + Cardinality({t \in socios :
                           \/ FracGreater(prod[t], prod[sid], old_total)
                           \/ /\ ~FracGreater(prod[sid], prod[t], old_total)
                              /\ t < sid})]
    IN  [sid \in socios |-> IF pos[sid] <= resto THEN floor[sid] + 1 ELSE floor[sid]]

\* a layout whose cursor is never advanced
RECURSIVE LayoutNoAdvance(_, _, _)
LayoutNoAdvance(ids, base, cursor) ==
    IF ids = <<>> THEN <<>>
    ELSE LET n == base[Head(ids)]
         IN  IF n <= 0 THEN LayoutNoAdvance(Tail(ids), base, cursor)
             ELSE <<Block(Head(ids), "plena", cursor, cursor + n - 1)>>
                  \o LayoutNoAdvance(Tail(ids), base, cursor)

\* one contiguous block per holder with n > 0, ascending id, from unit 1
RECURSIVE Layout(_, _, _)
Layout(ids, base, cursor) ==
    IF ids = <<>> THEN <<>>
    ELSE LET n == base[Head(ids)]
         IN  IF n <= 0 THEN Layout(Tail(ids), base, cursor)
             ELSE <<Block(Head(ids), "plena", cursor, cursor + n - 1)>>
                  \o Layout(Tail(ids), base, cursor + n)

\* a redenomination that never rejects the capital
NotMultipleNever(old_capital, new_vn) == FALSE

\* ratio != ratio.to_integral_value(): the capital is no multiple of new_vn
NotMultiple(old_capital, new_vn) == old_capital % new_vn # 0

\* a redenomination that adopts the new nominal value but keeps the old total
NewTotalKept(old_capital, old_total, new_vn) == old_total

\* new_total: old_total without a declared value, else int(old_capital / new_vn)
NewTotal(old_capital, old_total, new_vn) ==
    IF new_vn = None THEN old_total ELSE old_capital \div new_vn

\* 5) REDENOMINACION at the close of the day: the new blocks, nominal value
\* and total, or ok = FALSE where the code raises ValueError.
redenominacion(bs, vn, total, day) ==
    LET current == Current(bs)
        old_total == SumOver(current, DOMAIN current)
        old_capital == vn * old_total
        vals == VnCandidates(day)
        new_vn == IF vals # <<>> THEN vals[Len(vals)] ELSE None
        fail == [ok |-> FALSE, blocks |-> bs, valor_nominal |-> vn, total_part |-> total]
    IN  IF vals # <<>> /\ Disagree(vals) THEN fail
        ELSE IF new_vn # None /\ new_vn <= 0 THEN fail
        ELSE IF new_vn # None /\ NotMultiple(old_capital, new_vn) THEN fail
        ELSE LET new_total == NewTotal(old_capital, old_total, new_vn)
                 vn2 == IF new_vn # None THEN new_vn ELSE vn
             IN  IF old_total = 0
                 THEN [ok |-> TRUE, blocks |-> consolidate(bs),
                       valor_nominal |-> vn2, total_part |-> 0]
                 ELSE [ok |-> TRUE,
                       blocks |-> consolidate(
                           Layout(SortedIds(DOMAIN current),
                                  Allocation(current, new_total, old_total), 1)),
                       valor_nominal |-> vn2, total_part |-> new_total]

\* a day loop without its last statement: the watermark is kept
end_of_day_total_watermark(bs, total) == total

\* ajuste fin dia: the total recomputed from the 'plena' blocks
end_of_day_total(bs, total) == SumPlena(bs)

\* ------------------------------------ _apply_events as a pure function
\* one iteration of a for loop of the day on the running blocks, nominal
\* value and total
ApplyStep(S, ev) ==
    CASE ev.tipo \in {"BAJA", "RED_AMORT"} ->
            [S EXCEPT !.blocks = apply_baja(S.blocks, ev)]
      [] ev.tipo \in {"TRANSMISION", "SUCESION"} ->
            [S EXCEPT !.blocks = apply_transmision(S.blocks, ev)]
      [] ev.tipo \in {"ALTA", "AMPL_EMISION"} ->
            [S EXCEPT !.blocks = apply_alta(S.blocks, ev),
                      !.total_part = Watermark(S.total_part, ev.rango_hasta)]
      [] ev.tipo = "USUFRUCTO" ->
            [S EXCEPT !.blocks = apply_usufructo(S.blocks, ev)]
      [] ev.tipo \in {"PIGNORACION", "EMBARGO"} ->
            [S EXCEPT !.blocks = apply_gravamen(S.blocks, ev)]
      [] ev.tipo \in {"AMPL_VALOR", "RED_VALOR"} ->
            [S EXCEPT !.valor_nominal = apply_valor(S.valor_nominal, ev)]

RECURSIVE ApplySeq(_, _)
ApplySeq(S, q) == IF q = <<>> THEN S ELSE ApplySeq(ApplyStep(S, Head(q)), Tail(q))

\* the body of "for f in sorted(by_date.keys())" for one day
apply_day(S, day) ==
    LET S1 == ApplySeq(S, Agenda(day))
        r == redenominacion(S1.blocks, S1.valor_nominal, S1.total_part, day)
        S2 == IF HayReden(day)
              THEN [blocks |-> r.blocks, valor_nominal |-> r.valor_nominal,
                    total_part |-> r.total_part]
              ELSE S1
    IN  IF HayReden(day) /\ ~r.ok THEN [ok |-> FALSE]
        ELSE [ok |-> TRUE, blocks |-> S2.blocks, valor_nominal |-> S2.valor_nominal,
              total_part |-> end_of_day_total(S2.blocks, S2.total_part)]

RECURSIVE apply_days(_, _, _)
apply_days(S, fs, evs) ==
    IF fs = <<>> THEN [ok |-> TRUE, blocks |-> S.blocks,
                       valor_nominal |-> S.valor_nominal, total_part |-> S.total_part]
    ELSE LET r == apply_day(S, Day(evs, Head(fs)))
         IN  IF ~r.ok THEN r
             ELSE apply_days([blocks |-> r.blocks, valor_nominal |-> r.valor_nominal,
                              total_part |-> r.total_part], Tail(fs), evs)

\* (blocks, valor_nominal, total_part) of the call, or ok = FALSE if it raises
apply_events(evs, valor_nominal_ini, part_tot_ini) ==
    apply_days([blocks |-> <<>>, valor_nominal |-> valor_nominal_ini,
                total_part |-> part_tot_ini],
               SortedIds({evs[i].fecha : i \in 1..Len(evs)}), evs)

\* ------------------------------------------------------------ the call
Snapshot == [blocks |-> blocks, valor_nominal |-> valor_nominal, total_part |-> total_part]

NoStep == [paso |-> "ninguno"]

\* the locals of _apply_events when it is entered with the arguments events,
\* valor_nominal_inicial and part_tot_inicial
Entry ==
    /\ pc = "dia"
    /\ pendientes = {events[i].fecha : i \in 1..Len(events)}
    /\ last_fecha = None
    /\ cola = <<>>
    /\ blocks = <<>>
    /\ valor_nominal = valor_nominal_inicial
    /\ total_part = part_tot_inicial
    /\ resultado = [returned |-> FALSE]
    /\ prev = [blocks |-> <<>>, valor_nominal |-> valor_nominal_inicial,
               total_part |-> part_tot_inicial]
    /\ ultimo = NoStep
    /\ aplicados = <<>>

\* the board_members table and the signatories of the companies
BoardVars == <<board_members, firmantes_json>>

\* no board member and no signatory is recorded
NoBoard == board_members = <<>> /\ firmantes_json = [c \in {1, 2} |-> <<>>]

\* _apply_events called on a list of events, without a query
NoQuery == tabla = <<>> /\ company_id = None /\ hasta_fecha = None

Init ==
    /\ \E n \in 0..MaxEvents : events \in [1..n -> EventPool]
    /\ \E a \in Arguments : valor_nominal_inicial = a[1] /\ part_tot_inicial = a[2]
    /\ NoQuery
    /\ Entry
    /\ NoBoard

Inputs == <<tabla, company_id, hasta_fecha, events, valor_nominal_inicial, part_tot_inicial,
            board_members, firmantes_json>>

\* for f in sorted(by_date.keys()): day = by_date[f]; last_fecha = f
IniciarDia ==
    /\ pc = "dia"
    /\ pendientes # {}
    /\ last_fecha' = Min(pendientes)
    /\ pendientes' = pendientes \ {Min(pendientes)}
    /\ cola' = Agenda(Day(events, Min(pendientes)))
    /\ pc' = "eventos"
    /\ ultimo' = [paso |-> "dia"]
    /\ UNCHANGED <<Inputs, blocks, valor_nominal, total_part, resultado, prev, aplicados>>

\* what every event step shares: the head of the queue is consumed and logged
Consume(T) ==
    /\ pc = "eventos"
    /\ cola # <<>>
    /\ Head(cola).tipo \in T
    /\ cola' = Tail(cola)
    /\ prev' = Snapshot
    /\ ultimo' = [paso |-> "evento", ev |-> Head(cola)]
    /\ aplicados' = Append(aplicados, Head(cola))
    /\ UNCHANGED <<Inputs, pc, pendientes, last_fecha, resultado>>

Baja ==
    /\ Consume({"BAJA", "RED_AMORT"})
    /\ blocks' = apply_baja(blocks, Head(cola))
    /\ UNCHANGED <<valor_nominal, total_part>>

Transmision ==
    /\ Consume({"TRANSMISION", "SUCESION"})
    /\ blocks' = apply_transmision(blocks, Head(cola))
    /\ UNCHANGED <<valor_nominal, total_part>>

Alta ==
    /\ Consume({"ALTA", "AMPL_EMISION"})
    /\ blocks' = apply_alta(blocks, Head(cola))
    /\ total_part' = Watermark(total_part, Head(cola).rango_hasta)
    /\ UNCHANGED valor_nominal

\* 4) USUFRUCTO / PIGNORACION / EMBARGO, in input order
UsufructoGravamen ==
    /\ Consume({"USUFRUCTO", "PIGNORACION", "EMBARGO"})
    /\ blocks' = IF Head(cola).tipo = "USUFRUCTO"
                 THEN apply_usufructo(blocks, Head(cola))
                 ELSE apply_gravamen(blocks, Head(cola))
    /\ UNCHANGED <<valor_nominal, total_part>>

Valor ==
    /\ Consume({"AMPL_VALOR", "RED_VALOR"})
    /\ valor_nominal' = apply_valor(valor_nominal, Head(cola))
    /\ UNCHANGED <<blocks, total_part>>

\* if any(e.get('tipo') == 'REDENOMINACION' for e in day): ...
Redenominacion ==
    /\ pc = "eventos"
    /\ cola = <<>>
    /\ HayReden(Day(events, last_fecha))
    /\ LET r == redenominacion(blocks, valor_nominal, total_part, Day(events, last_fecha))
       IN  /\ pc' = IF r.ok THEN "cierre" ELSE "error"
           /\ blocks' = r.blocks
           /\ valor_nominal' = r.valor_nominal
           /\ total_part' = r.total_part
    /\ prev' = Snapshot
    /\ ultimo' = [paso |-> "redenominacion"]
    /\ UNCHANGED <<Inputs, pendientes, last_fecha, cola, resultado, aplicados>>

\* the last statement of the day loop
CierreDia ==
    /\ \/ pc = "cierre"
       \/ pc = "eventos" /\ cola = <<>> /\ ~HayReden(Day(events, last_fecha))
    /\ total_part' = end_of_day_total(blocks, total_part)
    /\ pc' = "dia"
    /\ ultimo' = [paso |-> "cierre"]
    /\ UNCHANGED <<Inputs, pendientes, last_fecha, cola, blocks, valor_nominal,
                   resultado, prev, aplicados>>

\* return blocks, valor_nominal, total_part, last_fecha
Retornar ==
    /\ pc = "dia"
    /\ pendientes = {}
    /\ pc' = "done"
    /\ resultado' = [returned |-> TRUE, blocks |-> blocks, valor_nominal |-> valor_nominal,
                     total_part |-> total_part, last_fecha |-> last_fecha]
    /\ UNCHANGED <<Inputs, pendientes, last_fecha, cola, blocks, valor_nominal,
                   total_part, prev, ultimo, aplicados>>

Next ==
    \/ IniciarDia
    \/ Baja
    \/ Transmision
    \/ Alta
    \/ UsufructoGravamen
    \/ Valor
    \/ Redenominacion
    \/ CierreDia
    \/ Retornar

Spec == Init /\ [][Next]_vars

\* ------------------------------------------- a second family of event lists
\* Event lists over holders 1..3 and units 1..5 that exercise every kind of
\* right: retirements leaving zero, one and two residual blocks, a succession
\* into an adjacent block, usufruct splits of adjacent ranges, a pledge, a
\* seizure and the cancellation of a part of the pledge.
DerechosShapes(f) ==
    {Event(f, "ALTA", None, 1, 1, 3, None),
     Event(f, "AMPL_EMISION", None, 2, 4, 5, None),
     Event(f, "RED_AMORT", 1, None, 2, 2, None),
     Event(f, "BAJA", 1, None, 1, 1, None),
     Event(f, "SUCESION", 1, 2, 3, 3, None),
     Event(f, "TRANSMISION", 1, 3, 2, 2, None),
     Event(f, "USUFRUCTO", 1, 3, 1, 2, None),
     Event(f, "USUFRUCTO", 1, 3, 3, 3, None),
     Event(f, "PIGNORACION", 1, 2, 1, 3, None),
     Event(f, "EMBARGO", 2, 3, 4, 4, None),
     Event(f, "CANCELA_PIGNORACION", 1, 2, 2, 2, None),
     Event(f, "AMPL_VALOR", None, None, None, None, 30000000),
     Event(f, "REDENOMINACION", None, None, None, None, None)}

DerechosPool == UNION {DerechosShapes(f) : f \in Fechas}

InitDerechos ==
    /\ \E n \in 0..MaxEvents : events \in [1..n -> DerechosPool]
    /\ \E a \in Arguments : valor_nominal_inicial = a[1] /\ part_tot_inicial = a[2]
    /\ NoQuery
    /\ Entry
    /\ NoBoard

SpecDerechos == InitDerechos /\ [][Next]_vars

\* ------------------------------------------- a third family of event lists
\* Event lists that bring three holders, a usufruct split of the whole holding
\* of holder 1 and a pledge to a
\* redenomination: holder 1 is issued units 1-4 and holder 2 units 5-6, of which
\* unit 6 can pass to holder 3 the day after; the redenominations, of either
\* day, are global without a value,
\* global with the value 3.0, or over the block 1-2 of holder 1 with the value
\* 0.5 as create_redenominacion stores it (por_bloque, the value for reference).
MaxRedenEvents == 4

RedenDaily ==
    {Event(1, "ALTA", None, 1, 1, 4, None),
     Event(1, "ALTA", None, 2, 5, 6, None),
     Event(2, "TRANSMISION", 2, 3, 6, 6, None),
     Event(1, "BAJA", 1, None, 1, 4, None),
     Event(1, "USUFRUCTO", 1, 2, 1, 4, None),
     Event(1, "PIGNORACION", 1, 3, 3, 4, None),
     Event(1, "AMPL_VALOR", None, None, None, None, 30000000)}

RedenShapes(f) ==
    {Event(f, "REDENOMINACION", None, None, None, None, None),
     Event(f, "REDENOMINACION", None, None, None, None, 30000000),
     Event(f, "REDENOMINACION", 1, None, 1, 2, 5000000)}

RedenPool == RedenDaily \cup UNION {RedenShapes(f) : f \in Fechas}

InitReden ==
    /\ \E n \in 0..MaxRedenEvents : events \in [1..n -> RedenPool]
    /\ \E a \in Arguments : valor_nominal_inicial = a[1] /\ part_tot_inicial = a[2]
    /\ NoQuery
    /\ Entry
    /\ NoBoard

SpecReden == InitReden /\ [][Next]_vars

\* ---------------------------------------------------- compute_snapshot
\* A row of the events table; its id is its index in tabla.
Row(c, e) ==
    [company_id |-> c, fecha |-> e.fecha, tipo |-> e.tipo,
     socio_transmite |-> e.socio_transmite, socio_adquiere |-> e.socio_adquiere,
     rango_desde |-> e.rango_desde, rango_hasta |-> e.rango_hasta,
     nuevo_valor_nominal |-> e.nuevo_valor_nominal]

\* the columns of a row that _apply_events reads
ToEvent(r) ==
    Event(r.fecha, r.tipo, r.socio_transmite, r.socio_adquiere,
          r.rango_desde, r.rango_hasta, r.nuevo_valor_nominal)

ToEvents(rows) == [i \in 1..Len(rows) |-> ToEvent(rows[i])]

\* ORDER BY fecha, id: the rows are in id order, equal dates keep it
InsertRow(x, t) ==
    LET k == Cardinality({i \in 1..Len(t) : t[i].fecha <= x.fecha})
    IN  SubSeq(t, 1, k) \o <<x>> \o SubSeq(t, k + 1, Len(t))

RECURSIVE OrderByFecha(_)
OrderByFecha(s) ==
    IF s = <<>> THEN <<>>
    ELSE InsertRow(s[Len(s)], OrderByFecha(SubSeq(s, 1, Len(s) - 1)))

\* a query that would leave out the WHERE clause
list_events_upto_all(tab, cid, fecha_max) == ToEvents(OrderByFecha(tab))

\* SELECT ... FROM events WHERE company_id=? [AND fecha<=?] ORDER BY fecha, id
list_events_upto(tab, cid, fecha_max) ==
    ToEvents(OrderByFecha(
        SelectSeq(tab, LAMBDA r : /\ r.company_id = cid
                                  /\ (fecha_max = None \/ r.fecha <= fecha_max))))

\* holdings_vigentes: one row per full-ownership block
holdings_rows(bs) ==
    LET plena == SelectSeq(bs, LAMBDA b : b.right_type = "plena")
    IN  [i \in 1..Len(plena) |->
            [partner_id |-> plena[i].socio_id, right_type |-> "plena",
             rango_desde |-> plena[i].rango_desde, rango_hasta |-> plena[i].rango_hasta,
             participaciones |-> len_block(plena[i])]]

\* what compute_snapshot returns of the holdings, the total and the nominal value
SnapshotOf(bs, vn, total) ==
    [holdings_vigentes |-> holdings_rows(bs),
     total_participaciones |-> total,
     valor_nominal |-> vn]

Companies == {1, 2}

HastaFechas == {None} \cup Fechas

SnapshotShapes(f) ==
    {Event(f, "ALTA", None, 1, 1, 2, None),
     Event(f, "BAJA", 1, None, 1, 1, None),
     Event(f, "TRANSMISION", 1, 2, 2, 2, None),
     Event(f, "PIGNORACION", 1, 2, 1, 1, None),
     Event(f, "AMPL_VALOR", None, None, None, None, 30000000),
     Event(f, "REDENOMINACION", None, None, None, None, 10000000)}

RowPool == {Row(c, e) : c \in Companies, e \in UNION {SnapshotShapes(f) : f \in Fechas}}

\* company.get("valor_nominal") or 5.0, company.get("participaciones_totales")
\* or 0: the defaults 5.0 and 0 where get_company returns no row or a row
\* without the two columns (the companies_repo next to compute_service selects
\* neither), else what the company records (the companies_repo of the
\* application selects both; companies_service stores a value > 0 and a total
\* >= 1): here 2.0 and 5.
StartValues == {<<50000000, 0>>, <<20000000, 5>>}

\* compute_snapshot(company_id, hasta_fecha) up to its call of _apply_events
InitSnapshot ==
    /\ \E n \in 0..MaxEvents : tabla \in [1..n -> RowPool]
    /\ company_id \in Companies
    /\ hasta_fecha \in HastaFechas
    /\ events = list_events_upto(tabla, company_id, hasta_fecha)
    /\ \E a \in StartValues : valor_nominal_inicial = a[1] /\ part_tot_inicial = a[2]
    /\ Entry
    /\ NoBoard

SpecSnapshot == InitSnapshot /\ [][Next]_vars

\* ------------------------------------------- events_service: the writers
\* Python's "not x" for an optional holder id
Falsy(x) == x = None \/ x = 0

\* (tipo or "").upper().strip() on the type strings the requests use
upper_strip(t) == IF t = "reden" THEN "REDEN" ELSE t

NeedRange ==
    {"TRANSMISION", "SUCESION", "USUFRUCTO", "ALTA", "AMPL_EMISION", "BAJA",
     "RED_AMORT", "PIGNORACION", "EMBARGO", "CANCELA_PIGNORACION",
     "CANCELA_EMBARGO", "LEV_GRAVAMEN", "ALZAMIENTO"}

Gravamenes ==
    {"PIGNORACION", "EMBARGO", "CANCELA_PIGNORACION", "CANCELA_EMBARGO",
     "LEV_GRAVAMEN", "ALZAMIENTO"}

\* a validation that would ask nothing of pledges, seizures and cancellations
validate_event_semantics_lax(t, st, sa, rd, rh, nvn) ==
    {e \in {"rango_incompleto"} : (rd = None) # (rh = None)}
    \cup {e \in {"rango_invertido"} : rd # None /\ rh # None /\ rh < rd}
    \cup {e \in {"falta_rango"} : t \in NeedRange \ Gravamenes /\ (rd = None \/ rh = None)}
    \cup {e \in {"falta_transmite"} :
            t \in {"TRANSMISION", "SUCESION", "USUFRUCTO", "BAJA", "RED_AMORT"} /\ Falsy(st)}
    \cup {e \in {"falta_adquiere"} :
            t \in {"TRANSMISION", "SUCESION", "USUFRUCTO", "ALTA", "AMPL_EMISION"} /\ Falsy(sa)}
    \cup {e \in {"falta_nominal"} :
            t \in {"AMPL_VALOR", "RED_VALOR"} /\ ~(nvn # None /\ nvn > 0)}
    \cup {e \in {"sobra_rango"} :
            t \in {"AMPL_VALOR", "RED_VALOR"} /\ (rd # None \/ rh # None)}

\* the errors _validate_event_semantics accumulates
validate_event_semantics(t, st, sa, rd, rh, nvn) ==
    {e \in {"rango_incompleto"} : (rd = None) # (rh = None)}
    \cup {e \in {"rango_invertido"} : rd # None /\ rh # None /\ rh < rd}
    \cup {e \in {"falta_rango"} : t \in NeedRange /\ (rd = None \/ rh = None)}
    \cup {e \in {"falta_transmite"} :
            t \in {"TRANSMISION", "SUCESION", "USUFRUCTO", "BAJA", "RED_AMORT"}
                  \cup Gravamenes /\ Falsy(st)}
    \cup {e \in {"falta_adquiere"} :
            t \in {"TRANSMISION", "SUCESION", "USUFRUCTO", "ALTA", "AMPL_EMISION"}
                  \cup Gravamenes /\ Falsy(sa)}
    \cup {e \in {"falta_nominal"} :
            t \in {"AMPL_VALOR", "RED_VALOR"} /\ ~(nvn # None /\ nvn > 0)}
    \cup {e \in {"sobra_rango"} :
            t \in {"AMPL_VALOR", "RED_VALOR"} /\ (rd # None \/ rh # None)}

\* trg_events_required_parties_ins / _upd
trigger_required_parties(r) ==
    \/ /\ r.tipo \in {"ALTA", "AMPL_EMISION", "TRANSMISION", "PIGNORACION",
                      "EMBARGO", "USUFRUCTO"}
       /\ r.socio_adquiere = None
    \/ /\ r.tipo \in {"TRANSMISION", "BAJA", "RED_AMORT", "USUFRUCTO"}
       /\ r.socio_transmite = None

\* the two shapes trg_events_reden_mode lets through
ModoGlobal(r) ==
    /\ r.rango_desde = None /\ r.rango_hasta = None
    /\ r.socio_transmite = None /\ r.socio_adquiere = None

ModoBloque(r) ==
    /\ r.rango_desde # None /\ r.rango_hasta # None
    /\ (r.socio_transmite # None \/ r.socio_adquiere # None)

\* trg_events_reden_mode_ins / _upd
trigger_reden_mode(r) ==
    r.tipo = "REDENOMINACION" /\ ~(ModoGlobal(r) \/ ModoBloque(r))

\* trg_events_check_nominal_ins / _upd
trigger_check_nominal(r) ==
    \/ /\ r.tipo \in {"AMPL_VALOR", "RED_VALOR"}
       /\ (r.nuevo_valor_nominal = None \/ r.nuevo_valor_nominal <= 0)
    \/ /\ r.tipo = "REDENOMINACION"
       /\ r.nuevo_valor_nominal # None /\ r.nuevo_valor_nominal <= 0

\* some BEFORE INSERT / BEFORE UPDATE trigger raises ABORT on the new row
TriggersAbort(r) ==
    trigger_required_parties(r) \/ trigger_reden_mode(r) \/ trigger_check_nominal(r)

\* create_event_generic: the table it leaves and whether it raised
create_event_generic(tab, cid, tipo, fecha, st, sa, rd, rh, nvn) ==
    LET t == normalize_event_type(upper_strip(tipo))
        errors == validate_event_semantics(t, st, sa, rd, rh, nvn)
        row == Row(cid, Event(fecha, t, st, sa, rd, rh, nvn))
    IN  IF t \notin EVENT_TYPES /\ t # "OTRO" THEN [raised |-> TRUE, tabla |-> tab]
        ELSE IF errors # {} THEN [raised |-> TRUE, tabla |-> tab]
        ELSE IF TriggersAbort(row) THEN [raised |-> TRUE, tabla |-> tab]
        ELSE [raised |-> FALSE, tabla |-> Append(tab, row)]

\* create_redenominacion
create_redenominacion(tab, cid, fecha, por_bloque, socio_id, rd, rh, recalcular_numero, nvn) ==
    LET truthy(x) == x # None /\ x # 0
    IN  IF recalcular_numero /\ (nvn = None \/ nvn <= 0) THEN [raised |-> TRUE, tabla |-> tab]
        ELSE IF por_bloque
        THEN IF Falsy(socio_id) THEN [raised |-> TRUE, tabla |-> tab]
             ELSE IF ~(truthy(rd) /\ truthy(rh) /\ rh >= rd) THEN [raised |-> TRUE, tabla |-> tab]
             ELSE IF recalcular_numero THEN [raised |-> TRUE, tabla |-> tab]
             ELSE create_event_generic(tab, cid, "REDENOMINACION", fecha, socio_id, None,
                                       rd, rh, IF truthy(nvn) THEN nvn ELSE None)
        ELSE create_event_generic(tab, cid, "REDENOMINACION", fecha, None, None, None, None,
                                  IF recalcular_numero /\ truthy(nvn) THEN nvn ELSE None)

\* update_event as the module exports it (its second definition): the fields
\* given are written as they are, the type only upper-cased and stripped
update_event(tab, id, tipo, st, sa, rd, rh, nvn) ==
    LET old == tab[id]
        new == [old EXCEPT
                  !.tipo = IF tipo # "<None>" THEN upper_strip(tipo) ELSE @,
                  !.socio_transmite = IF st # None THEN st ELSE @,
                  !.socio_adquiere = IF sa # None THEN sa ELSE @,
                  !.rango_desde = IF rd # None THEN rd ELSE @,
                  !.rango_hasta = IF rh # None THEN rh ELSE @,
                  !.nuevo_valor_nominal = IF nvn # None THEN nvn ELSE @]
    IN  IF TriggersAbort(new) THEN [raised |-> TRUE, tabla |-> tab]
        ELSE [raised |-> FALSE, tabla |-> [tab EXCEPT ![id] = new]]

\* the requests: types, holders, ranges and nominal values they are drawn from
MaxRequests == 2

RequestTypes == EVENT_TYPES \cup {"TRASMISION", "REDENOM", "reden", "DIVIDENDO"}

RequestRanges == {<<None, None>>, <<1, None>>, <<None, 2>>, <<1, 2>>, <<2, 1>>}

RequestNominals == {None, 0, 10000000}

EngineVars == <<company_id, hasta_fecha, events, valor_nominal_inicial, part_tot_inicial,
                pc, pendientes, last_fecha, cola, blocks, valor_nominal, total_part,
                resultado, prev, aplicados>>

\* an empty events table; no replay is running
InitEventos ==
    /\ tabla = <<>>
    /\ company_id = None
    /\ hasta_fecha = None
    /\ events = <<>>
    /\ valor_nominal_inicial = 50000000
    /\ part_tot_inicial = 0
    /\ Entry
    /\ NoBoard

\* update_event called without a new type (tipo=None)
SinTipo == "<None>"

\* the number of requests served so far
Served == IF ultimo.paso = "ninguno" THEN 0 ELSE ultimo.n

\* the bound on the number of requests of one behaviour
Room == Served < MaxRequests

\* the record of a request: what was asked, whether it raised, the table before
Registro(name, req, out) ==
    [paso |-> name, req |-> req, raised |-> out.raised, antes |-> tabla,
     n |-> Served + 1]

CreateEventGeneric ==
    \E tipo \in RequestTypes, st \in {None, 1}, sa \in {None, 2},
       r \in RequestRanges, nvn \in RequestNominals :
        LET req == [tipo |-> tipo, socio_transmite |-> st, socio_adquiere |-> sa,
                    rango_desde |-> r[1], rango_hasta |-> r[2],
                    nuevo_valor_nominal |-> nvn]
            out == create_event_generic(tabla, 1, tipo, 1, st, sa, r[1], r[2], nvn)
        IN  /\ Room
            /\ tabla' = out.tabla
            /\ ultimo' = Registro("create_event_generic", req, out)
            /\ UNCHANGED <<EngineVars, BoardVars>>

CreateRedenominacion ==
    \E por_bloque \in BOOLEAN, socio_id \in {None, 1}, r \in RequestRanges,
       recalcular_numero \in BOOLEAN, nvn \in RequestNominals :
        LET req == [por_bloque |-> por_bloque, socio_id |-> socio_id,
                    rango_desde |-> r[1], rango_hasta |-> r[2],
                    recalcular_numero |-> recalcular_numero,
                    nuevo_valor_nominal |-> nvn]
            out == create_redenominacion(tabla, 1, 1, por_bloque, socio_id, r[1], r[2],
                                         recalcular_numero, nvn)
        IN  /\ Room
            /\ tabla' = out.tabla
            /\ ultimo' = Registro("create_redenominacion", req, out)
            /\ UNCHANGED <<EngineVars, BoardVars>>

UpdateEvent ==
    \E id \in 1..Len(tabla), tipo \in RequestTypes \cup {SinTipo}, st \in {None, 1},
       sa \in {None, 2}, r \in RequestRanges, nvn \in RequestNominals :
        LET req == [id |-> id, tipo |-> tipo, socio_transmite |-> st,
                    socio_adquiere |-> sa, rango_desde |-> r[1], rango_hasta |-> r[2],
                    nuevo_valor_nominal |-> nvn]
            out == update_event(tabla, id, tipo, st, sa, r[1], r[2], nvn)
        IN  /\ Room
            /\ tabla' = out.tabla
            /\ ultimo' = Registro("update_event", req, out)
            /\ UNCHANGED <<EngineVars, BoardVars>>

NextEventos ==
    \/ CreateEventGeneric
    \/ CreateRedenominacion
    \/ UpdateEvent

SpecEventos == InitEventos /\ [][NextEventos]_vars

\* -------------------------------------- enums.py: the type as it is typed
\* A text is a Python str, spelled as the sequence of its characters; an
\* optional text is the str | None that normalize_event_type takes and returns.
\* The words the model spells: the canonical types, the declared aliases and
\* two words that are neither.
Words == EVENT_TYPES \cup DOMAIN EVENT_TYPE_ALIASES \cup {"OTRO", "DIVIDENDO"}

Spell(w) ==
    CASE w = "ALTA" ->
            <<"A", "L", "T", "A">>
      [] w = "AMPL_EMISION" ->
            <<"A", "M", "P", "L", "_", "E", "M", "I", "S", "I", "O", "N">>
      [] w = "AMPL_VALOR" ->
            <<"A", "M", "P", "L", "_", "V", "A", "L", "O", "R">>
      [] w = "TRANSMISION" ->
            <<"T", "R", "A", "N", "S", "M", "I", "S", "I", "O", "N">>
      [] w = "BAJA" ->
            <<"B", "A", "J", "A">>
      [] w = "RED_AMORT" ->
            <<"R", "E", "D", "_", "A", "M", "O", "R", "T">>
      [] w = "RED_VALOR" ->
            <<"R", "E", "D", "_", "V", "A", "L", "O", "R">>
      [] w = "PIGNORACION" ->
            <<"P", "I", "G", "N", "O", "R", "A", "C", "I", "O", "N">>
      [] w = "EMBARGO" ->
            <<"E", "M", "B", "A", "R", "G", "O">>
      [] w = "CANCELA_PIGNORACION" ->
            <<"C", "A", "N", "C", "E", "L", "A", "_", "P", "I", "G", "N", "O", "R", "A", "C", "I", "O", "N">>
      [] w = "CANCELA_EMBARGO" ->
            <<"C", "A", "N", "C", "E", "L", "A", "_", "E", "M", "B", "A", "R", "G", "O">>
      [] w = "LEV_GRAVAMEN" ->
            <<"L", "E", "V", "_", "G", "R", "A", "V", "A", "M", "E", "N">>
      [] w = "ALZAMIENTO" ->
            <<"A", "L", "Z", "A", "M", "I", "E", "N", "T", "O">>
      [] w = "USUFRUCTO" ->
            <<"U", "S", "U", "F", "R", "U", "C", "T", "O">>
      [] w = "REDENOMINACION" ->
            <<"R", "E", "D", "E", "N", "O", "M", "I", "N", "A", "C", "I", "O", "N">>
      [] w = "SUCESION" ->
            <<"S", "U", "C", "E", "S", "I", "O", "N">>
      [] w = "TRASMISION" ->
            <<"T", "R", "A", "S", "M", "I", "S", "I", "O", "N">>
      [] w = "REDENOMINACIO'N" ->
            <<"R", "E", "D", "E", "N", "O", "M", "I", "N", "A", "C", "I", "O'", "N">>
      [] w = "REDENOM" ->
            <<"R", "E", "D", "E", "N", "O", "M">>
      [] w = "REDEN" ->
            <<"R", "E", "D", "E", "N">>
      [] w = "LEVANTAMIENTO" ->
            <<"L", "E", "V", "A", "N", "T", "A", "M", "I", "E", "N", "T", "O">>
      [] w = "LEVANTAMIENTO_DE_GRAVAMEN" ->
            <<"L", "E", "V", "A", "N", "T", "A", "M", "I", "E", "N", "T", "O", "_", "D", "E", "_", "G", "R", "A", "V", "A", "M", "E", "N">>
      [] w = "ALZAR_EMBARGO" ->
            <<"A", "L", "Z", "A", "R", "_", "E", "M", "B", "A", "R", "G", "O">>
      [] w = "ALZAMIENTO_DE_EMBARGO" ->
            <<"A", "L", "Z", "A", "M", "I", "E", "N", "T", "O", "_", "D", "E", "_", "E", "M", "B", "A", "R", "G", "O">>
      [] w = "OTRO" ->
            <<"O", "T", "R", "O">>
      [] w = "DIVIDENDO" ->
            <<"D", "I", "V", "I", "D", "E", "N", "D", "O">>

Some(chars) == [some |-> TRUE, chars |-> chars]

NoText == [some |-> FALSE, chars |-> <<>>]

\* str.upper(), character by character
UpperChar(c) ==
    CASE c = "a" -> "A"
      [] c = "b" -> "B"
      [] c = "c" -> "C"
      [] c = "d" -> "D"
      [] c = "e" -> "E"
      [] c = "f" -> "F"
      [] c = "g" -> "G"
      [] c = "i" -> "I"
      [] c = "j" -> "J"
      [] c = "l" -> "L"
      [] c = "m" -> "M"
      [] c = "n" -> "N"
      [] c = "o" -> "O"
      [] c = "o'" -> "O'"
      [] c = "p" -> "P"
      [] c = "r" -> "R"
      [] c = "s" -> "S"
      [] c = "t" -> "T"
      [] c = "u" -> "U"
      [] c = "v" -> "V"
      [] c = "z" -> "Z"
      [] OTHER -> c

upper(t) == [i \in 1..Len(t) |-> UpperChar(t[i])]

\* str.lower() and str.capitalize() on the upper-case words, to type them
LowerChar(c) ==
    IF \E d \in {"a", "b", "c", "d", "e", "f", "g", "i", "j", "l", "m", "n", "o", "o'", "p", "r", "s", "t", "u", "v", "z"} : UpperChar(d) = c
    THEN CHOOSE d \in {"a", "b", "c", "d", "e", "f", "g", "i", "j", "l", "m", "n", "o", "o'", "p", "r", "s", "t", "u", "v", "z"} : UpperChar(d) = c
    ELSE c

lower(t) == [i \in 1..Len(t) |-> LowerChar(t[i])]

capitalize(t) == [i \in 1..Len(t) |-> IF i = 1 THEN UpperChar(t[i]) ELSE LowerChar(t[i])]

\* str.strip(): the text without its leading and trailing blanks
RECURSIVE lstrip(_)
lstrip(t) == IF t # <<>> /\ Head(t) = " " THEN lstrip(Tail(t)) ELSE t

RECURSIVE rstrip(_)
rstrip(t) ==
    IF t # <<>> /\ t[Len(t)] = " " THEN rstrip(SubSeq(t, 1, Len(t) - 1)) ELSE t

strip(t) == rstrip(lstrip(t))

\* the keys of EVENT_TYPE_ALIASES as texts
AliasKey(t) == {k \in DOMAIN EVENT_TYPE_ALIASES : Spell(k) = t}

\* a normalisation that would look the text up without stripping it
normalize_event_type_unstripped(x) ==
    IF ~x.some \/ x.chars = <<>> THEN x
    ELSE LET t_up == upper(x.chars)
         IN  IF AliasKey(t_up) # {}
             THEN Some(Spell(EVENT_TYPE_ALIASES[CHOOSE k \in AliasKey(t_up) : TRUE]))
             ELSE Some(t_up)

\* normalize_event_type on what is typed
normalize_event_type_text(x) ==
    IF ~x.some \/ x.chars = <<>> THEN x
    ELSE LET t_up == upper(strip(x.chars))
         IN  IF AliasKey(t_up) # {}
             THEN Some(Spell(EVENT_TYPE_ALIASES[CHOOSE k \in AliasKey(t_up) : TRUE]))
             ELSE Some(t_up)

\* the ways a word is typed: upper case, lower case or capitalised, with or
\* without a blank before and after
Typings(w) ==
    {lead \o form \o trail :
        lead \in {<<>>, <<" ">>},
        form \in {Spell(w), lower(Spell(w)), capitalize(Spell(w))},
        trail \in {<<>>, <<" ">>, <<" ", " ">>}}

Texts ==
    {NoText, Some(<<>>), Some(<<" ">>)}
    \cup {Some(t) : t \in UNION {Typings(w) : w \in Words}}

\* normalize_event_type is called on a text
NormalizeEventType ==
    /\ \E x \in Texts :
          ultimo' = [paso |-> "normalize_event_type", t |-> x,
                     out |-> normalize_event_type_text(x)]
    /\ UNCHANGED <<tabla, EngineVars, BoardVars>>

NextEnums == NormalizeEventType

SpecEnums == InitEventos /\ [][NextEnums]_vars

\* ------------------------------------------- import_service: commit
\* The rows of an import as dry_run hands them over: keyword arguments of
\* create_event_generic.  dry_run checks dates, types, ranges and nominal
\* values, not the holders a type requires, so some rows fail on insertion:
\* the second issuance has no acquiring holder (ValueError) and the
\* redenomination names a holder without a range (ABORT of the trigger).
MaxImportRows == 2

ImportRows ==
    {[tipo |-> "ALTA", socio_transmite |-> None, socio_adquiere |-> 1,
      rango_desde |-> 1, rango_hasta |-> 2, nuevo_valor_nominal |-> None],
     [tipo |-> "TRANSMISION", socio_transmite |-> 1, socio_adquiere |-> 2,
      rango_desde |-> 2, rango_hasta |-> 2, nuevo_valor_nominal |-> None],
     [tipo |-> "ALTA", socio_transmite |-> None, socio_adquiere |-> None,
      rango_desde |-> 3, rango_hasta |-> 4, nuevo_valor_nominal |-> None],
     [tipo |-> "REDENOMINACION", socio_transmite |-> 1, socio_adquiere |-> None,
      rango_desde |-> None, rango_hasta |-> None, nuevo_valor_nominal |-> None]}

\* the loop "for r in rows: create_event_generic(**r); inserted += 1" of the
\* events branch.  create_event_generic opens its own connection, and
\* get_connection commits it on leaving: the table after a row is what that
\* row's call committed.  dbtab is the table in the database, inserted the
\* counter, failed whether a call raised and ended the loop.
RECURSIVE commit_rows(_, _, _, _)
commit_rows(dbtab, cid, rows, inserted) ==
    IF rows = <<>> THEN [tabla |-> dbtab, inserted |-> inserted, failed |-> FALSE]
    ELSE LET r == Head(rows)
             out == create_event_generic(dbtab, cid, r.tipo, 1, r.socio_transmite,
                                         r.socio_adquiere, r.rango_desde, r.rango_hasta,
                                         r.nuevo_valor_nominal)
         IN  IF out.raised THEN [tabla |-> out.tabla, inserted |-> inserted, failed |-> TRUE]
             ELSE commit_rows(out.tabla, cid, Tail(rows), inserted + 1)

\* commit('events', company_id, rows): BEGIN on the connection of commit, the
\* loop, then conn.commit() or, in the except branch, conn.rollback().  The
\* connection of commit has written nothing, so its commit and its rollback
\* both leave the table as the calls of the loop left it; the summary carries
\* the counter and the error.
commit_events(dbtab, cid, rows) ==
    LET loop == commit_rows(dbtab, cid, rows, 0)
        written_by_conn == <<>>
    IN  [tabla |-> loop.tabla \o written_by_conn, raised |-> FALSE,
         inserted |-> loop.inserted, errors |-> loop.failed]

ImportCommit ==
    \E n \in 0..MaxImportRows : \E rows \in [1..n -> ImportRows] :
        LET out == commit_events(tabla, 1, rows)
        IN  /\ Room
            /\ tabla' = out.tabla
            /\ ultimo' = [Registro("commit", rows, out) EXCEPT !.raised = out.errors]
                             @@ [inserted |-> out.inserted]
            /\ UNCHANGED <<EngineVars, BoardVars>>

NextImport == ImportCommit

SpecImport == InitEventos /\ [][NextImport]_vars

\* ------------------------------------- reporting_service: encumbrances
ENC_START == {"PIGNORACION", "EMBARGO"}

ENC_CANCEL == {"LEV_GRAVAMEN", "ALZAMIENTO", "CANCELA_PIGNORACION", "CANCELA_EMBARGO"}

\* (a, b) as an inclusive range with a <= b, None if a bound is missing
norm_range(a, b) ==
    IF a = None \/ b = None THEN None
    ELSE IF b < a THEN <<b, a>> ELSE <<a, b>>

\* Python's order of two (a, b) tuples
PairLeq(x, y) == x[1] < y[1] \/ (x[1] = y[1] /\ x[2] <= y[2])

InsertPair(x, t) ==
    LET k == Cardinality({i \in 1..Len(t) : PairLeq(t[i], x)})
    IN  SubSeq(t, 1, k) \o <<x>> \o SubSeq(t, k + 1, Len(t))

\* sorted(ranges)
RECURSIVE SortPairs(_)
SortPairs(s) ==
    IF s = <<>> THEN <<>>
    ELSE InsertPair(s[Len(s)], SortPairs(SubSeq(s, 1, Len(s) - 1)))

\* the loop of _merge_ranges over the sorted ranges
RECURSIVE MergeLoop(_, _)
MergeLoop(merged, rest) ==
    IF rest = <<>> THEN merged
    ELSE LET r == Head(rest)
             last == merged[Len(merged)]
         IN  IF r[1] <= last[2] + 1
             THEN MergeLoop([merged EXCEPT ![Len(merged)] =
                                 <<last[1], IF last[2] >= r[2] THEN last[2] ELSE r[2]>>],
                            Tail(rest))
             ELSE MergeLoop(Append(merged, r), Tail(rest))

merge_ranges(ranges) ==
    IF ranges = <<>> THEN <<>>
    ELSE LET s == SortPairs(ranges) IN MergeLoop(<<Head(s)>>, Tail(s))

\* what is left of one range (a, b) once cut (ca, cb) is taken out
CutPieces(r, cut) ==
    IF cut[2] < r[1] \/ cut[1] > r[2] THEN <<r>>
    ELSE (IF r[1] < cut[1] THEN <<<<r[1], cut[1] - 1>>>> ELSE <<>>)
         \o (IF cut[2] < r[2] THEN <<<<cut[2] + 1, r[2]>>>> ELSE <<>>)

subtract_one(base, cut) ==
    IF base = <<>> THEN <<>>
    ELSE LET out == Flatten([i \in 1..Len(base) |-> CutPieces(base[i], cut)])
         IN  merge_ranges(SelectSeq(out, LAMBDA r : r[1] <= r[2]))

RECURSIVE SubtractLoop(_, _)
SubtractLoop(cur, cuts) ==
    IF cuts = <<>> \/ cur = <<>> THEN cur
    ELSE SubtractLoop(subtract_one(cur, Head(cuts)), Tail(cuts))

subtract_many(base, cuts) == SubtractLoop(merge_ranges(base), merge_ranges(cuts))

\* the rows encumbrance_events selects, ORDER BY fecha, id; titular_id is the
\* column socio_transmite and acreedor_id the column socio_adquiere
encumbrance_events(tab, cid, as_of, partner_id) ==
    OrderByFecha(SelectSeq(tab, LAMBDA r :
        /\ r.company_id = cid
        /\ r.tipo \in ENC_START \cup ENC_CANCEL
        /\ (Falsy(as_of) \/ r.fecha <= as_of)
        /\ (Falsy(partner_id) \/ r.socio_transmite = partner_id
                                  \/ r.socio_adquiere = partner_id)))

\* the normalised ranges of the rows of ev with a range and a type in T
RangesOf(ev, T) ==
    LET with == SelectSeq(ev, LAMBDA r :
                    r.tipo \in T /\ r.rango_desde # None /\ r.rango_hasta # None)
    IN  [i \in 1..Len(with) |-> norm_range(with[i].rango_desde, with[i].rango_hasta)]

\* the ranges in force for (titular, acreedor) in the rows of ev
encumbrances_for_titular_and_acreedor(ev, titular_id, acreedor_id) ==
    LET df == SelectSeq(ev, LAMBDA r : r.socio_transmite = titular_id
                                       /\ r.socio_adquiere = acreedor_id)
        altas == RangesOf(df, ENC_START)
        bajas == RangesOf(df, ENC_CANCEL)
    IN  IF altas = <<>> THEN <<>> ELSE subtract_many(merge_ranges(altas), bajas)

\* df.sort_values(by=["rango_desde", "rango_hasta"]) of the report rows
ReportLeq(x, y) == PairLeq(<<x.rango_desde, x.rango_hasta>>, <<y.rango_desde, y.rango_hasta>>)

InsertReport(x, t) ==
    LET k == Cardinality({i \in 1..Len(t) : ReportLeq(t[i], x)})
    IN  SubSeq(t, 1, k) \o <<x>> \o SubSeq(t, k + 1, Len(t))

RECURSIVE SortReport(_)
SortReport(s) ==
    IF s = <<>> THEN <<>>
    ELSE InsertReport(s[Len(s)], SortReport(SubSeq(s, 1, Len(s) - 1)))

\* active_encumbrances(company_id, partner_id, as_of): the rows of the frame
active_encumbrances(tab, cid, partner_id, as_of) ==
    LET ev == encumbrance_events(tab, cid, as_of, partner_id)
        acreedores == SortedIds({ev[i].socio_adquiere : i \in 1..Len(ev)} \ {None})
        ref_fecha(acre) ==
            LET fs == {ev[i].fecha : i \in {j \in 1..Len(ev) :
                          ev[j].socio_adquiere = acre /\ ev[j].tipo \in ENC_START}}
            IN  IF fs = {} THEN None ELSE Min(fs)
        rows(acre) ==
            LET tramos == encumbrances_for_titular_and_acreedor(ev, partner_id, acre)
            IN  [i \in 1..Len(tramos) |->
                    [fecha |-> ref_fecha(acre), tipo |-> "GRAVAMEN",
                     rango_desde |-> tramos[i][1], rango_hasta |-> tramos[i][2]]]
    IN  SortReport(Flatten([k \in 1..Len(acreedores) |-> rows(acreedores[k])]))

\* the loop of _substract_intervals over the sorted cuts
RECURSIVE IntervalLoop(_, _)
IntervalLoop(segs, cuts) ==
    IF cuts = <<>> \/ segs = <<>> THEN segs
    ELSE IntervalLoop(Flatten([i \in 1..Len(segs) |-> CutPieces(segs[i], Head(cuts))]),
                      Tail(cuts))

\* base is (a, b); the caller's base = None, passed when a bound of the
\* range is missing, is written <<None, None>>
substract_intervals(base, cuts) ==
    IF base[1] = None \/ base[2] = None THEN <<>>
    ELSE SelectSeq(IntervalLoop(<<base>>, SortPairs(cuts)), LAMBDA r : r[1] <= r[2])

\* "socio_adquiere or socio_transmite" of a row
Creditor(r) == IF ~Falsy(r.socio_adquiere) THEN r.socio_adquiere ELSE r.socio_transmite

\* partner_holdings_ranges: the full-ownership blocks of the partner among
\* bs, the blocks compute_snapshot(company_id, as_of) returned
partner_holdings_ranges(bs, partner_id) ==
    SelectSeq(holdings_rows(bs), LAMBDA h : h.partner_id = partner_id)

\* active_encumbrances_affecting_partner(company_id, partner_id, as_of): the
\* rows of the frame; bs are the blocks of the snapshot at as_of
active_encumbrances_affecting_partner(tab, cid, partner_id, as_of, bs) ==
    LET rng == partner_holdings_ranges(bs, partner_id)
        upto(T) == OrderByFecha(SelectSeq(tab, LAMBDA r :
                       r.company_id = cid /\ r.fecha <= as_of /\ r.tipo \in T))
        starts == upto(ENC_START)
        cancels == SelectSeq(upto(ENC_CANCEL), LAMBDA c :
                       c.rango_desde # None /\ c.rango_hasta # None /\ Creditor(c) # None)
        cuts_by_creditor(cred) ==
            LET mine == SelectSeq(cancels, LAMBDA c : Creditor(c) = cred)
            IN  [i \in 1..Len(mine) |-> <<mine[i].rango_desde, mine[i].rango_hasta>>]
        numeric(e) == e.rango_desde # None /\ e.rango_hasta # None
        overlaps_partner(e) ==
            \/ ~numeric(e)
            \/ \E i \in 1..Len(rng) : /\ e.rango_desde <= rng[i].rango_hasta
                                      /\ e.rango_hasta >= rng[i].rango_desde
        residuals(e) ==
            LET base == IF numeric(e) THEN <<e.rango_desde, e.rango_hasta>>
                        ELSE <<None, None>>
                left == substract_intervals(base, cuts_by_creditor(Creditor(e)))
            IN  IF left = <<>> /\ ~numeric(e) THEN <<<<None, None>>>> ELSE left
        rows(e) == [i \in 1..Len(residuals(e)) |->
                       [fecha |-> e.fecha, tipo |-> e.tipo,
                        rango_desde |-> residuals(e)[i][1],
                        rango_hasta |-> residuals(e)[i][2],
                        acreedor_id |-> Creditor(e)]]
    IN  IF rng = <<>> THEN <<>>
        ELSE Flatten([k \in 1..Len(starts) |->
                         IF overlaps_partner(starts[k]) THEN rows(starts[k]) ELSE <<>>])

MaxGravamenRows == 3

GravamenPool ==
    {Row(1, Event(1, "ALTA", None, 1, 1, 4, None)),
     Row(1, Event(1, "PIGNORACION", 1, 2, 1, 4, None)),
     Row(1, Event(2, "PIGNORACION", 1, 2, 1, 4, None)),
     Row(1, Event(1, "EMBARGO", 1, 3, 2, 3, None)),
     Row(1, Event(1, "LEV_GRAVAMEN", 1, 2, 1, 4, None)),
     Row(1, Event(2, "CANCELA_PIGNORACION", 1, 2, 2, 3, None)),
     Row(1, Event(2, "ALZAMIENTO", 1, 3, 2, 2, None)),
     Row(1, Event(2, "TRANSMISION", 1, 2, 3, 4, None)),
     Row(1, Event(2, "BAJA", 1, None, 4, 4, None)),
     Row(1, Event(1, "AMPL_VALOR", None, None, None, None, 60000000)),
     Row(1, Event(2, "REDENOMINACION", None, None, None, None, None))}

\* an events table with pledges, seizures and cancellations among other
\* events, and a report date; compute_snapshot(1, as_of) is about to replay
\* the events up to that date
InitGravamenes ==
    /\ \E n \in 0..MaxGravamenRows : tabla \in [1..n -> GravamenPool]
    /\ company_id = 1
    /\ hasta_fecha \in Fechas
    /\ events = list_events_upto(tabla, company_id, hasta_fecha)
    /\ valor_nominal_inicial = 50000000
    /\ part_tot_inicial = 0
    /\ Entry
    /\ NoBoard

\* active_encumbrances(company_id, partner_id, as_of); it reads the events
\* table only
ActiveEncumbrances ==
    /\ pc \in {"done", "error"}
    /\ \E partner_id \in {1, 2} :
          ultimo' = [paso |-> "active_encumbrances", partner_id |-> partner_id,
                     as_of |-> hasta_fecha,
                     out |-> active_encumbrances(tabla, company_id, partner_id,
                                                 hasta_fecha)]
    /\ UNCHANGED <<tabla, EngineVars, BoardVars>>

\* active_encumbrances_affecting_partner(company_id, partner_id, as_of), once
\* the replay of compute_snapshot has returned
ActiveEncumbrancesAffectingPartner ==
    /\ pc = "done"
    /\ \E partner_id \in {1, 2} :
          ultimo' = [paso |-> "active_encumbrances_affecting_partner",
                     partner_id |-> partner_id, as_of |-> hasta_fecha,
                     out |-> active_encumbrances_affecting_partner(
                                 tabla, company_id, partner_id, hasta_fecha,
                                 resultado.blocks)]
    /\ UNCHANGED <<tabla, EngineVars, BoardVars>>

NextGravamenes ==
    \/ Next
    \/ ActiveEncumbrances
    \/ ActiveEncumbrancesAffectingPartner

SpecGravamenes == InitGravamenes /\ [][NextGravamenes]_vars

\* ------------------------------------------ governance_service: the board
\* U' writes U with an acute accent
GOVERNANCE_ROLES ==
    {"Administrador U'nico", "Presidente", "Vicepresidente", "Secretario",
     "Vicesecretario", "Secretario - Consejero", "Consejero Delegado", "Consejero",
     "Apoderado"}

GOVERNANCE_ROLE_ALIASES ==
    [k \in {"admin_unico", "administrador_unico", "consejero_delegado",
            "vicepresidente", "presidente", "secretario", "vicesecretario",
            "secretario_consejero", "sec_consejero", "consejero", "apoderado"} |->
        CASE k \in {"admin_unico", "administrador_unico"} -> "Administrador U'nico"
          [] k = "consejero_delegado" -> "Consejero Delegado"
          [] k = "vicepresidente" -> "Vicepresidente"
          [] k = "presidente" -> "Presidente"
          [] k = "secretario" -> "Secretario"
          [] k = "vicesecretario" -> "Vicesecretario"
          [] k \in {"secretario_consejero", "sec_consejero"} -> "Secretario - Consejero"
          [] k = "consejero" -> "Consejero"
          [] k = "apoderado" -> "Apoderado"]

ENFORCE_UNIQUE_PRESIDENT == TRUE

\* Python's None where a text is expected
NoStr == "<None>"

\* "not s" for an optional text
Blank(s) == s = NoStr \/ s = ""

\* s.strip() on the names and roles the requests and the signatories use
StripStr(s) ==
    CASE s = " PRESIDENTE " -> "PRESIDENTE"
      [] s = "Presidente " -> "Presidente"
      [] s = " Ana" -> "Ana"
      [] s = " " -> ""
      [] OTHER -> s

\* s.lower() on the same texts, stripped
LowerStr(s) ==
    CASE s \in {"PRESIDENTE", "Presidente"} -> "presidente"
      [] s = "Secretario" -> "secretario"
      [] s = "Presidente Honorario" -> "presidente honorario"
      [] s = "Firmante" -> "firmante"
      [] s = "Ana" -> "ana"
      [] s = "Luis" -> "luis"
      [] OTHER -> s

\* s.replace(" ", "_").replace("-", "_") on the lower-case roles
Underscored(s) ==
    IF s = "presidente honorario" THEN "presidente_honorario" ELSE s

normalize_role(value) ==
    IF Blank(value) THEN value
    ELSE LET v == StripStr(value)
             key == Underscored(LowerStr(v))
         IN  IF v \in GOVERNANCE_ROLES THEN v
             ELSE IF key \in DOMAIN GOVERNANCE_ROLE_ALIASES
                  THEN GOVERNANCE_ROLE_ALIASES[key]
                  ELSE v

\* (s or "").strip().lower()
norm_txt(s) == IF s = NoStr THEN "" ELSE LowerStr(StripStr(s))

\* a row of board_members; its id is its index in the table
Member(cid, nombre, cargo) == [company_id |-> cid, nombre |-> nombre, cargo |-> cargo]

\* governance_repo.upsert_board_member: UPDATE ... WHERE id=? AND company_id=?
\* for a true id, INSERT otherwise
upsert_board_member(bm, id, cid, nombre, cargo) ==
    IF ~Falsy(id)
    THEN [i \in 1..Len(bm) |->
             IF i = id /\ bm[i].company_id = cid
             THEN [bm[i] EXCEPT !.nombre = nombre, !.cargo = cargo]
             ELSE bm[i]]
    ELSE Append(bm, Member(cid, nombre, cargo))

\* list_board(company_id): the ids of the rows of the company; the callers
\* modelled here only look for a row, so the ORDER BY is left out
BoardIds(bm, cid) == {i \in 1..Len(bm) : bm[i].company_id = cid}

\* r["cargo"] of a row of list_board
ListedCargo(r) == normalize_role(r.cargo)

\* the loop of migrate_firmantes_to_board over the signatories
RECURSIVE MigrateLoop(_, _, _)
MigrateLoop(bm, cid, items) ==
    IF items = <<>> THEN bm
    ELSE LET it == Head(items)
             nombre == IF it.nombre = NoStr THEN "" ELSE StripStr(it.nombre)
             rol == normalize_role(it.rol)
             cargo == IF Blank(rol) THEN "Firmante" ELSE rol
         IN  IF nombre = "" THEN MigrateLoop(bm, cid, Tail(items))
             ELSE MigrateLoop(upsert_board_member(bm, None, cid, nombre, cargo),
                              cid, Tail(items))

\* the board after migrate_firmantes_to_board(company_id)
migrate_firmantes_to_board(bm, fj, cid) ==
    IF BoardIds(bm, cid) # {} THEN bm ELSE MigrateLoop(bm, cid, fj[cid])

\* _assert_role_present raises
role_missing(cargo) == (IF cargo = NoStr THEN "" ELSE StripStr(cargo)) = ""

\* _assert_no_duplicates raises
has_duplicate(bm, cid, member_id, nombre, cargo) ==
    LET cargo_n == normalize_role(cargo)
        cargo_k == norm_txt(IF Blank(cargo_n) THEN cargo ELSE cargo_n)
    IN  \E i \in BoardIds(bm, cid) :
            /\ ~(member_id # None /\ i = member_id)
            /\ norm_txt(bm[i].nombre) = norm_txt(nombre)
            /\ norm_txt(ListedCargo(bm[i])) = cargo_k

\* _assert_unique_president_if_needed raises
second_president(bm, cid, member_id, cargo) ==
    LET cargo_n == normalize_role(cargo)
        cargo_final == IF Blank(cargo_n) THEN cargo ELSE cargo_n
    IN  /\ ENFORCE_UNIQUE_PRESIDENT
        /\ cargo_final = "Presidente"
        /\ \E i \in BoardIds(bm, cid) :
              /\ ~(member_id # None /\ i = member_id)
              /\ StripStr(ListedCargo(bm[i])) = "Presidente"

\* validate_email on the addresses the requests use
validate_email(value) == Blank(value) \/ value = "ana@socios.es"

\* save_board_member: the board after the call and whether it raised
save_board_member(bm, id, cid, nombre, cargo, email) ==
    LET nom == IF nombre = NoStr THEN "" ELSE StripStr(nombre)
        cargo_norm == StripStr(cargo)
        cargo_n == normalize_role(cargo_norm)
        cargo_final == IF Blank(cargo_n) THEN StripStr(cargo) ELSE cargo_n
        fails == \/ nom = ""
                 \/ (~Blank(email) /\ ~validate_email(email))
                 \/ role_missing(cargo)
                 \/ has_duplicate(bm, cid, id, nom, cargo_final)
                 \/ second_president(bm, cid, id, cargo_final)
    IN  IF fails THEN [board |-> bm, raised |-> TRUE]
        ELSE [board |-> upsert_board_member(bm, id, cid, nom, cargo_final),
              raised |-> FALSE]

MaxBoardMembers == 3

\* what the legacy editor left in firmantes_json: nothing, its default for
\* a board (an unnamed president and an unnamed secretary), or named rows
FirmantesLists ==
    {<<>>,
     <<[nombre |-> "", rol |-> "presidente"], [nombre |-> "", rol |-> "secretario"]>>,
     <<[nombre |-> "Ana", rol |-> "presidente"], [nombre |-> "Luis", rol |-> "secretario"]>>,
     <<[nombre |-> "Ana", rol |-> "presidente"], [nombre |-> "Luis", rol |-> "presidente"]>>}

\* an empty board_members table; no replay is running
InitGobierno ==
    /\ board_members = <<>>
    /\ firmantes_json \in [{1, 2} -> FirmantesLists]
    /\ tabla = <<>>
    /\ company_id = None
    /\ hasta_fecha = None
    /\ events = <<>>
    /\ valor_nominal_inicial = 50000000
    /\ part_tot_inicial = 0
    /\ Entry

SaveBoardMember ==
    \E id \in {None, 0, 1, 2}, cid \in {1, 2}, nombre \in {" Ana", "Luis", ""},
       cargo \in {"Presidente", " PRESIDENTE ", "Secretario", "Presidente Honorario", " "},
       email \in {NoStr, "ana@socios.es", "ana"} :
        LET out == save_board_member(board_members, id, cid, nombre, cargo, email)
        IN  /\ Len(board_members) < MaxBoardMembers
            /\ board_members' = out.board
            /\ ultimo' = [paso |-> "save_board_member", raised |-> out.raised,
                          antes |-> board_members]
            /\ UNCHANGED <<tabla, EngineVars, firmantes_json>>

MigrateFirmantesToBoard ==
    \E cid \in {1, 2} :
        /\ Len(board_members) + Len(firmantes_json[cid]) <= MaxBoardMembers
        /\ board_members' = migrate_firmantes_to_board(board_members, firmantes_json, cid)
        /\ ultimo' = [paso |-> "migrate_firmantes_to_board", raised |-> FALSE,
                      antes |-> board_members]
        /\ UNCHANGED <<tabla, EngineVars, firmantes_json>>

NextGobierno ==
    \/ SaveBoardMember
    \/ MigrateFirmantesToBoard

SpecGobierno == InitGobierno /\ [][NextGobierno]_vars

\* ======================================================= the properties
\* length of the full-ownership blocks of a block list, block by block
PlenaIdx(bs) == {i \in 1..Len(bs) : bs[i].right_type = "plena"}

PlenaLength(bs) ==
    SumOver([i \in PlenaIdx(bs) |-> bs[i].rango_hasta - bs[i].rango_desde + 1],
            PlenaIdx(bs))

\* the units a holder fully owns according to a block list (summed lengths)
HolderUnits(bs, h) ==
    SumOver([i \in PlenaIdx(bs) |-> bs[i].rango_hasta - bs[i].rango_desde + 1],
            {i \in PlenaIdx(bs) : bs[i].socio_id = h})

DayClosed == ultimo.paso = "cierre"
Today == Day(events, last_fecha)

\* C1: at the end of every processed day the running total equals the sum of
\* the lengths (to - from + 1) of the full-ownership blocks.
C1_Conservation == DayClosed => total_part = PlenaLength(blocks)

\* a day closes whose issuances left a watermark above the units owned
C1_Witness ==
    /\ DayClosed
    /\ blocks # <<>>
    /\ \E i \in 1..Len(aplicados) :
          /\ aplicados[i].tipo \in {"ALTA", "AMPL_EMISION"}
          /\ aplicados[i].rango_hasta > total_part

\* C2: after every processed day and in the returned block list, no unit lies
\* in two full-ownership blocks of different holders.
Disjoint(bs) ==
    \A i, j \in PlenaIdx(bs) :
        bs[i].socio_id # bs[j].socio_id =>
            \/ bs[i].rango_hasta < bs[j].rango_desde
            \/ bs[j].rango_hasta < bs[i].rango_desde

C2_Disjointness ==
    /\ DayClosed => Disjoint(blocks)
    /\ resultado.returned => Disjoint(resultado.blocks)

\* C3: the result depends only on the set of events and the two starting
\* values: every permutation of the event list gives the same blocks, nominal
\* value and total (or fails alike).
IndexPermutations(n) == {p \in [1..n -> 1..n] : \A i, j \in 1..n : p[i] = p[j] => i = j}

Permuted(evs, p) == [i \in 1..Len(evs) |-> evs[p[i]]]

C3_OrderIndependent ==
    pc = "done" =>
        \A p \in IndexPermutations(Len(events)) :
            apply_events(Permuted(events, p), valor_nominal_inicial, part_tot_inicial)
                = [ok |-> TRUE, blocks |-> resultado.blocks,
                   valor_nominal |-> resultado.valor_nominal,
                   total_part |-> resultado.total_part]

\* C4: days are processed in ascending date order; within a date retirements
\* come before transfers, transfers before issuances, issuances before usufruct
\* splits, pledges, seizures and nominal-value changes, and the redenomination
\* runs when every other event of the date has been applied.
Category(t) ==
    CASE t \in {"BAJA", "RED_AMORT"} -> 1
      [] t \in {"TRANSMISION", "SUCESION"} -> 2
      [] t \in {"ALTA", "AMPL_EMISION"} -> 3
      [] t \in {"USUFRUCTO", "PIGNORACION", "EMBARGO", "AMPL_VALOR", "RED_VALOR"} -> 4
      [] t = "REDENOMINACION" -> 5

\* how many events of date f, other than redenominations, a list holds
CountOthers(evs, f) ==
    Cardinality({i \in 1..Len(evs) :
        evs[i].fecha = f /\ normalize_event_type(evs[i].tipo) # "REDENOMINACION"})

C4_DayOrder ==
    /\ \A i, j \in 1..Len(aplicados) :
          i < j =>
             \/ aplicados[i].fecha < aplicados[j].fecha
             \/ /\ aplicados[i].fecha = aplicados[j].fecha
                /\ Category(aplicados[i].tipo) <= Category(aplicados[j].tipo)
    /\ ultimo.paso = "redenominacion" =>
          /\ CountOthers(aplicados, last_fecha) = CountOthers(events, last_fecha)
          /\ \A i \in 1..Len(aplicados) : aplicados[i].fecha <= last_fecha
    /\ pc = "done" => Len(aplicados) = Cardinality({i \in 1..Len(events) :
                          normalize_event_type(events[i].tipo) # "REDENOMINACION"})

\* a redenomination runs on the second date after an issuance that was listed
\* after a transfer of the same date, the first date's events listed last
C4_Witness ==
    /\ ultimo.paso = "redenominacion"
    /\ Len(events) >= 2
    /\ events[1].fecha > events[Len(events)].fecha
    /\ \E i, j \in 1..Len(events) :
          /\ i < j
          /\ events[i].fecha = events[j].fecha
          /\ Category(normalize_event_type(events[i].tipo)) >
                Category(normalize_event_type(events[j].tipo))
          /\ Category(normalize_event_type(events[i].tipo)) < 5

\* ------------------------------------------- redenomination properties
RedenDay == HayReden(Today)
Declared == VnCandidates(Today)
DeclaredSet == {Declared[i] : i \in 1..Len(Declared)}

\* what the redenomination of the day found: prev is the state it started from
OldTotal == PlenaLength(prev.blocks)
OldCapital == prev.valor_nominal * OldTotal
OldHolders == {prev.blocks[i].socio_id : i \in PlenaIdx(prev.blocks)}
NewHolders == {blocks[i].socio_id : i \in PlenaIdx(blocks)}

\* C5: a day whose redenomination declares a new nominal value v ends with
\* nominal value v and with v * total equal to the old nominal value times the
\* full-ownership units held before the redenomination.
C5_CapitalConserved ==
    (DayClosed /\ RedenDay /\ Declared # <<>>) =>
        /\ valor_nominal \in DeclaredSet
        /\ valor_nominal * total_part = OldCapital

\* a redenomination changed both the nominal value and the number of units
C5_Witness ==
    /\ DayClosed /\ RedenDay /\ Declared # <<>>
    /\ OldTotal > 0
    /\ valor_nominal # prev.valor_nominal
    /\ total_part # OldTotal

C7_NotMultipleAborts ==
    (/\ ultimo.paso = "redenominacion"
     /\ \E v \in DeclaredSet : DeclaredSet = {v} /\ OldCapital % v # 0)
        => /\ pc = "error"
           /\ ~resultado.returned
           /\ ~ENABLED Next

\* holdings of 3 units at 1.0 met a redenomination to a value that does not
\* divide the capital
C7_Witness ==
    /\ ultimo.paso = "redenominacion"
    /\ pc = "error"
    /\ OldTotal > 0
    /\ \E v \in DeclaredSet : DeclaredSet = {v} /\ OldCapital % v # 0

SixDecimals(v) == CHOOSE m \in (v - 5)..(v + 5) : m % 10 = 0 /\ m # v - 5

Reallocated == ultimo.paso = "redenominacion" /\ pc = "cierre" /\ OldTotal > 0

\* C9: after a reallocation the units allocated sum to new_total, and each
\* holder's allocation differs from current[h] * new_total / old_total by less
\* than 1.
C9_LargestRemainder ==
    Reallocated =>
        /\ PlenaLength(blocks) = total_part
        /\ \A h \in OldHolders :
              LET d == HolderUnits(blocks, h) * OldTotal
                       - HolderUnits(prev.blocks, h) * total_part
              IN  d < OldTotal /\ 0 - d < OldTotal

\* a holder's exact share was no integer
C9_Witness ==
    /\ Reallocated
    /\ \E h \in OldHolders :
          (HolderUnits(prev.blocks, h) * total_part) % OldTotal # 0

\* C10: after a day with a redenomination of at least one unit the blocks are
\* one full-ownership block per holder with a positive allocation, in ascending
\* holder order, the first from unit 1, each next from the previous end + 1,
\* the last ending at the total.
C10_ContiguousLayout ==
    (DayClosed /\ RedenDay /\ OldTotal > 0) =>
        /\ blocks # <<>>
        /\ \A i \in 1..Len(blocks) :
              /\ blocks[i].right_type = "plena"
              /\ blocks[i].rango_desde <= blocks[i].rango_hasta
              /\ blocks[i].socio_id \in OldHolders
        /\ \A i, j \in 1..Len(blocks) : i < j => blocks[i].socio_id < blocks[j].socio_id
        /\ blocks[1].rango_desde = 1
        /\ \A i \in 1..(Len(blocks) - 1) :
              blocks[i + 1].rango_desde = blocks[i].rango_hasta + 1
        /\ blocks[Len(blocks)].rango_hasta = total_part
        /\ \A h \in OldHolders :
              HolderUnits(prev.blocks, h) * total_part >= OldTotal => h \in NewHolders

\* two holders were laid out one after the other
C10_Witness ==
    /\ DayClosed /\ RedenDay /\ OldTotal > 0
    /\ Len(blocks) = 2
    /\ blocks # prev.blocks

\* ------------------------------------------ preconditions on the block set
Units(b) == b.rango_desde..b.rango_hasta

\* the full-ownership blocks of bs that share a unit with [d, h]
Overlapping(bs, d, h) ==
    {i \in PlenaIdx(bs) : ~(bs[i].rango_hasta < d \/ bs[i].rango_desde > h)}

\* the full-ownership blocks of holder st in bs that hold unit u
Holding(bs, st, u) ==
    {i \in PlenaIdx(bs) : bs[i].socio_id = st /\ u \in Units(bs[i])}

\* every unit of [d, h] lies in a full-ownership block of st
Covered(bs, st, d, h) == \A u \in d..h : Holding(bs, st, u) # {}

LastEvent(T) == ultimo.paso = "evento" /\ ultimo.ev.tipo \in T

\* C11: an issuance or emission whose range shares a unit with a
\* full-ownership block of the running block set is not applied: the
\* computation stops in error and the block set is left as it was.
C11_IssuanceConflictAborts ==
    (/\ LastEvent({"ALTA", "AMPL_EMISION"})
     /\ Overlapping(prev.blocks, ultimo.ev.rango_desde, ultimo.ev.rango_hasta) # {})
    => (pc = "error" /\ blocks = prev.blocks)

\* C12: a transfer, succession, retirement, usufruct split, pledge or seizure
\* whose range is not covered by full-ownership blocks of its transmitting
\* holder when it is applied is not applied: the computation stops in error
\* and the block set is left as it was.
C12_InsufficientRightsAborts ==
    (/\ LastEvent({"TRANSMISION", "SUCESION", "BAJA", "RED_AMORT",
                   "USUFRUCTO", "PIGNORACION", "EMBARGO"})
     /\ ~Covered(prev.blocks, ultimo.ev.socio_transmite,
                 ultimo.ev.rango_desde, ultimo.ev.rango_hasta))
    => (pc = "error" /\ blocks = prev.blocks)

\* the units holder s has under right kind rt
UnitsOf(bs, s, rt) ==
    UNION {Units(bs[i]) : i \in {j \in 1..Len(bs) :
                                  bs[j].socio_id = s /\ bs[j].right_type = rt}}

HolderIds == {1, 2, 3}

\* the blocks of bs that are not blocks of holder s under right kind rt
Except(bs, s, rt) == SelectSeq(bs, LAMBDA b : ~(b.socio_id = s /\ b.right_type = rt))

EventRange == ultimo.ev.rango_desde..ultimo.ev.rango_hasta

\* C13: a pledge or seizure leaves the units every holder fully owns, the
\* running total and the nominal value as they were; every block that is not
\* a pledge (seizure) block of the beneficiary is kept as it is, and the
\* beneficiary's pledge (seizure) units grow by exactly the event range.
C13_ChargeIsAdditive ==
    LastEvent({"PIGNORACION", "EMBARGO"}) =>
        LET rt == IF ultimo.ev.tipo = "PIGNORACION" THEN "prenda" ELSE "embargo"
            ben == ultimo.ev.socio_adquiere
        IN  /\ valor_nominal = prev.valor_nominal
            /\ total_part = prev.total_part
            /\ \A s \in HolderIds :
                   UnitsOf(blocks, s, "plena") = UnitsOf(prev.blocks, s, "plena")
            /\ Except(blocks, ben, rt) = Except(prev.blocks, ben, rt)
            /\ UnitsOf(blocks, ben, rt) = UnitsOf(prev.blocks, ben, rt) \cup EventRange

\* a seizure was laid on units their titleholder fully owns
C13_Witness ==
    /\ LastEvent({"EMBARGO"})
    /\ Covered(prev.blocks, ultimo.ev.socio_transmite,
               ultimo.ev.rango_desde, ultimo.ev.rango_hasta)
    /\ UnitsOf(blocks, ultimo.ev.socio_adquiere, "embargo") = EventRange

TypeAt(i) == normalize_event_type(events[i].tipo)

IndicesOf(T) == {i \in 1..Len(events) : TypeAt(i) \in T}

\* C14: when the list holds one pledge over [a, b] and, at a later date, one
\* cancellation for the same beneficiary over a range [c, d] inside [a, b]
\* (and no redenomination), the returned blocks carry pledge blocks of the
\* beneficiary over exactly the units of [a, b] that are not in [c, d].
C14_CancellationSubtracts ==
    \A i \in IndicesOf({"PIGNORACION"}) :
        \A j \in IndicesOf({"CANCELA_PIGNORACION", "LEV_GRAVAMEN"}) :
            (/\ resultado.returned
             /\ IndicesOf({"PIGNORACION"}) = {i}
             /\ IndicesOf({"CANCELA_PIGNORACION", "LEV_GRAVAMEN"}) = {j}
             /\ IndicesOf({"REDENOMINACION"}) = {}
             /\ events[i].fecha < events[j].fecha
             /\ events[i].socio_adquiere = events[j].socio_adquiere
             /\ events[i].rango_desde <= events[j].rango_desde
             /\ events[j].rango_hasta <= events[i].rango_hasta)
            => UnitsOf(resultado.blocks, events[i].socio_adquiere, "prenda")
               = (events[i].rango_desde..events[i].rango_hasta)
                 \ (events[j].rango_desde..events[j].rango_hasta)

\* some block of holder s and kind rt in bs holds the whole of the set R
BlockOver(bs, s, rt, R) ==
    \E i \in 1..Len(bs) :
        bs[i].socio_id = s /\ bs[i].right_type = rt /\ R \subseteq Units(bs[i])

\* the blocks of bs whose (holder, kind) pair is not in the set P
Outside(bs, P) == SelectSeq(bs, LAMBDA b : <<b.socio_id, b.right_type>> \notin P)

C16_TransferMoves ==
    (/\ LastEvent({"TRANSMISION", "SUCESION"})
     /\ Covered(prev.blocks, ultimo.ev.socio_transmite,
                ultimo.ev.rango_desde, ultimo.ev.rango_hasta))
    => LET st == ultimo.ev.socio_transmite
           sa == ultimo.ev.socio_adquiere
       IN  /\ UnitsOf(blocks, st, "plena") = UnitsOf(prev.blocks, st, "plena") \ EventRange
           /\ UnitsOf(blocks, sa, "plena") = UnitsOf(prev.blocks, sa, "plena") \cup EventRange
           /\ Outside(blocks, {<<st, "plena">>, <<sa, "plena">>})
              = Outside(prev.blocks, {<<st, "plena">>, <<sa, "plena">>})
           /\ PlenaLength(blocks) = PlenaLength(prev.blocks)

\* C17: after a retirement or amortization over a range [d, h] covered by
\* full-ownership blocks of the transmitting holder, the transmitting holder
\* fully owns its previous units minus [d, h], every other block is as it
\* was, and the sum of the full-ownership block lengths is h - d + 1 less.
C17_RetirementRemoves ==
    (/\ LastEvent({"BAJA", "RED_AMORT"})
     /\ Covered(prev.blocks, ultimo.ev.socio_transmite,
                ultimo.ev.rango_desde, ultimo.ev.rango_hasta))
    => LET st == ultimo.ev.socio_transmite
       IN  /\ UnitsOf(blocks, st, "plena") = UnitsOf(prev.blocks, st, "plena") \ EventRange
           /\ Outside(blocks, {<<st, "plena">>}) = Outside(prev.blocks, {<<st, "plena">>})
           /\ PlenaLength(blocks)
              = PlenaLength(prev.blocks) - (ultimo.ev.rango_hasta - ultimo.ev.rango_desde + 1)

\* the rows of the queried company dated up to the cutoff, in id order
Relevant ==
    SelectSeq(tabla, LAMBDA r : /\ r.company_id = company_id
                                /\ (hasta_fecha = None \/ r.fecha <= hasta_fecha))

\* every event of the queried company, whatever its date
CompanyEvents ==
    ToEvents(SelectSeq(tabla, LAMBDA r : r.company_id = company_id))

\* the replay of every event of the company, stopped at the close of the last
\* day that is not after the cutoff
FullReplayUpto ==
    apply_days([blocks |-> <<>>, valor_nominal |-> valor_nominal_inicial,
                total_part |-> part_tot_inicial],
               SortedIds({f \in {CompanyEvents[i].fecha : i \in 1..Len(CompanyEvents)} :
                             hasta_fecha = None \/ f <= hasta_fecha}),
               CompanyEvents)

\* C18: what compute_snapshot returns is the replay of the rows of the
\* queried company dated up to the cutoff and of nothing else, and it is the
\* state the replay of all of the company's events has at the close of the
\* last day that is not after the cutoff.
C18_SnapshotCutoff ==
    resultado.returned =>
        LET got == SnapshotOf(resultado.blocks, resultado.valor_nominal, resultado.total_part)
            own == apply_events(ToEvents(Relevant), valor_nominal_inicial, part_tot_inicial)
            full == FullReplayUpto
        IN  /\ own.ok
            /\ got = SnapshotOf(own.blocks, own.valor_nominal, own.total_part)
            /\ full.ok
            /\ got = SnapshotOf(full.blocks, full.valor_nominal, full.total_part)

\* a snapshot as of date 1 of a company that has a later event, taken from a
\* table that also holds an event of the other company
C18_Witness ==
    /\ resultado.returned
    /\ hasta_fecha = 1
    /\ resultado.blocks # <<>>
    /\ \E i \in 1..Len(tabla) : tabla[i].company_id = company_id /\ tabla[i].fecha = 2
    /\ \E i \in 1..Len(tabla) : tabla[i].company_id # company_id /\ tabla[i].fecha = 1

\* the type create_event_generic files a request under
RequestType(req) == normalize_event_type(upper_strip(req.tipo))

\* the range of a request is incomplete or runs backwards
BadRange(req) ==
    \/ (req.rango_desde = None) # (req.rango_hasta = None)
    \/ req.rango_desde # None /\ req.rango_hasta # None /\ req.rango_hasta < req.rango_desde

NoRange(req) == req.rango_desde = None \/ req.rango_hasta = None

\* a field the type of the request requires is missing
MissingRequired(req) ==
    LET t == RequestType(req)
    IN  \/ BadRange(req)
        \/ /\ t \in {"ALTA", "AMPL_EMISION"}
           /\ (req.socio_adquiere = None \/ NoRange(req))
        \/ /\ t \in {"BAJA", "RED_AMORT"}
           /\ (req.socio_transmite = None \/ NoRange(req))
        \/ /\ t \in {"TRANSMISION", "SUCESION", "USUFRUCTO"} \cup Gravamenes
           /\ (req.socio_transmite = None \/ req.socio_adquiere = None \/ NoRange(req))
        \/ /\ t \in {"AMPL_VALOR", "RED_VALOR"}
           /\ \/ req.nuevo_valor_nominal = None
              \/ req.nuevo_valor_nominal <= 0
              \/ req.rango_desde # None
              \/ req.rango_hasta # None

\* C19: a create_event_generic request that lacks a field its type requires
\* (holders and range by family, a nominal value > 0 and no range for a value
\* change, a complete range with to >= from for any type) raises and leaves
\* the events table as it was.
C19_MissingFieldRejected ==
    (ultimo.paso = "create_event_generic" /\ MissingRequired(ultimo.req))
        => (ultimo.raised /\ tabla = ultimo.antes)

\* a pledge without its transmitting holder was asked for on a table that
\* already holds a row, and was refused
C19_Witness ==
    /\ ultimo.paso = "create_event_generic"
    /\ ultimo.req.tipo = "PIGNORACION"
    /\ ultimo.req.socio_transmite = None
    /\ ultimo.req.socio_adquiere = 2
    /\ ultimo.req.rango_desde = 1 /\ ultimo.req.rango_hasta = 2
    /\ ultimo.raised
    /\ Len(ultimo.antes) = 1
    /\ tabla = ultimo.antes

\* a stored row the engine replays as a redenomination
EsRedenominacion(r) == normalize_event_type(r.tipo) = "REDENOMINACION"

\* C20: no stored redenomination mixes global and block fields: every row
\* of the events table that is a redenomination has either the global shape
\* (no holders, no range) or the block shape (a holder and a complete range),
\* whether it got there by a creation or by an update.
C20_NoMixedRedenominationStored ==
    \A i \in 1..Len(tabla) :
        EsRedenominacion(tabla[i]) => (ModoGlobal(tabla[i]) \/ ModoBloque(tabla[i]))

\* a redenomination over the block of one holder: a holder and a range
BlockMode(e) ==
    /\ e.tipo = "REDENOMINACION"
    /\ e.rango_desde # None /\ e.rango_hasta # None
    /\ (e.socio_transmite # None \/ e.socio_adquiere # None)

\* the redenominations of the day are all over a block
OnlyBlockMode ==
    /\ RedenDay
    /\ \A i \in 1..Len(Today) : Today[i].tipo = "REDENOMINACION" => BlockMode(Today[i])

\* C21: a day whose redenominations are all in block mode (a holder and a
\* range), with or without a nominal value recorded for reference, closes with
\* a total equal to the full-ownership units held before the redenomination.
C21_BlockModeKeepsTotal ==
    (DayClosed /\ OnlyBlockMode) => total_part = OldTotal

\* the units the rows of holdings_vigentes add up to
HoldingsTotal(snap) ==
    SumSeq([i \in 1..Len(snap.holdings_vigentes) |->
               snap.holdings_vigentes[i].participaciones])

\* C22: in what compute_snapshot returns, whatever the events at or before
\* the cutoff (none included) and whatever the starting watermark, the total
\* unit count equals the summed lengths of the full-ownership holdings.
C22_TotalMatchesHoldings ==
    resultado.returned =>
        LET got == SnapshotOf(resultado.blocks, resultado.valor_nominal, resultado.total_part)
        IN  got.total_participaciones = HoldingsTotal(got)

Normalized == ultimo.paso = "normalize_event_type"

\* C23: normalize_event_type maps every declared alias, typed in upper case,
\* lower case or capitalised and with or without blanks around it, to its
\* canonical type; it returns a canonical type unchanged and None for None;
\* normalising its result again gives the same result; and every alias target
\* is one of EVENT_TYPES.
C23_NormalizeEventType ==
    Normalized =>
        /\ \A k \in DOMAIN EVENT_TYPE_ALIASES :
              (ultimo.t.some /\ ultimo.t.chars \in Typings(k))
                  => ultimo.out = Some(Spell(EVENT_TYPE_ALIASES[k]))
        /\ \A w \in EVENT_TYPES :
              ultimo.t = Some(Spell(w)) => ultimo.out = ultimo.t
        /\ \A w \in Words :
              ultimo.t = Some(Spell(w)) => ultimo.out = Some(Spell(normalize_event_type(w)))
        /\ ~ultimo.t.some => ultimo.out = NoText
        /\ normalize_event_type_text(ultimo.out) = ultimo.out
        /\ \A k \in DOMAIN EVENT_TYPE_ALIASES : EVENT_TYPE_ALIASES[k] \in EVENT_TYPES

\* the accented alias was typed in lower case between blanks
C23_Witness ==
    /\ Normalized
    /\ ultimo.t = Some(<<" ">> \o lower(Spell("REDENOMINACIO'N")) \o <<" ">>)
    /\ ultimo.out = Some(Spell("REDENOMINACION"))

\* C24: a commit('events', ...) in which the insertion of a row failed leaves
\* in the events table none of the rows of the call, and its summary carries
\* the error.
C24_CommitIsTransactional ==
    (ultimo.paso = "commit" /\ ultimo.raised) => tabla = ultimo.antes

\* the exact share of a holder in the reallocation that has just run:
\* current[h] * new_total / old_total as the quotient ShareFloor(h) and the
\* remainder ShareRest(h) over old_total
ShareFloor(h) == (HolderUnits(prev.blocks, h) * total_part) \div OldTotal

ShareRest(h) == (HolderUnits(prev.blocks, h) * total_part) % OldTotal

\* the units left once every holder has its floor
Budget == total_part - SumOver([h \in OldHolders |-> ShareFloor(h)], OldHolders)

\* the place of a holder in the order of largest fractional part, ties by
\* ascending holder id
Place(h) ==
    1 + Cardinality({t \in OldHolders :
            \/ ShareRest(t) > ShareRest(h)
            \/ ShareRest(t) = ShareRest(h) /\ t < h})

\* C25: after a reallocation every holder has the floor of its exact share,
\* plus one unit exactly when it is among the first (new_total - sum of floors)
\* holders in the order of largest fractional part, equal fractional parts in
\* ascending holder id; nobody gets more than one extra unit.
C25_LargestFractionFirst ==
    Reallocated =>
        \A h \in OldHolders :
            HolderUnits(blocks, h) = ShareFloor(h) + (IF Place(h) <= Budget THEN 1 ELSE 0)

\* C26: a day with a redenomination that finds no fully owned unit
\* (old_total = 0) closes with no block at all and a total of 0.
C26_NothingToReallocate ==
    (DayClosed /\ RedenDay /\ OldTotal = 0) => (blocks = <<>> /\ total_part = 0)

\* two blocks of one holder and one kind of right that touch or share a unit
Mergeable(x, y) ==
    /\ x.socio_id = y.socio_id
    /\ x.right_type = y.right_type
    /\ \/ x.rango_hasta + 1 = y.rango_desde
       \/ y.rango_hasta + 1 = x.rango_desde
       \/ (x.rango_desde <= y.rango_hasta /\ y.rango_desde <= x.rango_hasta)

Maximal(bs) ==
    /\ \A i, j \in 1..Len(bs) : i # j => ~Mergeable(bs[i], bs[j])
    /\ \A i \in 1..Len(bs) : bs[i].participaciones = len_block(bs[i])

\* C27: the block list the engine holds after an event or a redenomination
\* has been applied consists of maximal blocks: no two blocks of the same
\* holder and kind of right are adjacent or overlapping, and every block's
\* stored length is to - from + 1.
C27_BlocksAreMaximal ==
    ultimo.paso \in {"evento", "redenominacion"} => Maximal(blocks)

\* the kinds of right other than full ownership
Limited == {"nuda", "usufructo", "prenda", "embargo"}

\* C30: a day with a redenomination that finds at least one fully owned unit
\* closes with full-ownership blocks only, so every bare-ownership, usufruct,
\* pledge and seizure block held before it is gone, and the capital it
\* redenominates is the old nominal value times the fully owned units alone:
\* the units under a usufruct split do not count.
C30_OnlyFullOwnershipSurvives ==
    (DayClosed /\ RedenDay /\ OldTotal > 0) =>
        /\ \A i \in 1..Len(blocks) : blocks[i].right_type \notin Limited
        /\ total_part = PlenaLength(blocks)
        /\ IF Declared = <<>>
           THEN total_part = PlenaLength(prev.blocks)
           ELSE valor_nominal * total_part = prev.valor_nominal * PlenaLength(prev.blocks)

\* the redenomination found a usufruct split and a pledge beside fully owned
\* units
C30_Witness ==
    /\ DayClosed /\ RedenDay /\ OldTotal > 0
    /\ \E i \in 1..Len(prev.blocks) : prev.blocks[i].right_type = "nuda"
    /\ \E i \in 1..Len(prev.blocks) : prev.blocks[i].right_type = "usufructo"
    /\ \E i \in 1..Len(prev.blocks) : prev.blocks[i].right_type = "prenda"
    /\ blocks # <<>>

\* row j of the table was registered after row i: a later date, or the same
\* date and a later id
Later(j, i) ==
    \/ tabla[j].fecha > tabla[i].fecha
    \/ (tabla[j].fecha = tabla[i].fecha /\ j > i)

\* the pledges and seizures of company 1 dated up to as_of
StartsUpto(as_of) ==
    {i \in 1..Len(tabla) : /\ tabla[i].company_id = 1
                           /\ tabla[i].tipo \in ENC_START
                           /\ tabla[i].fecha <= as_of}

\* unit u of start i is cancelled at as_of: a cancellation for the same
\* creditor, registered after it and dated up to as_of, covers the unit
Cancelled(i, u, as_of) ==
    \E j \in 1..Len(tabla) :
        /\ tabla[j].company_id = 1
        /\ tabla[j].tipo \in ENC_CANCEL
        /\ tabla[j].fecha <= as_of
        /\ tabla[j].socio_adquiere = tabla[i].socio_adquiere
        /\ Later(j, i)
        /\ u \in Units(tabla[j])

\* <<creditor, unit>> for the units of the starts in I in force at as_of
InForce(I, as_of) ==
    UNION {{<<tabla[i].socio_adquiere, u>> :
               u \in {v \in Units(tabla[i]) : ~Cancelled(i, v, as_of)}} : i \in I}

\* the units the rows of a report cover
Listed(out) == UNION {Units(out[k]) : k \in 1..Len(out)}

\* <<creditor, unit>> for the units the rows of a report cover
ListedBy(out) ==
    UNION {{<<out[k].acreedor_id, u>> : u \in Units(out[k])} : k \in 1..Len(out)}

\* the starts whose range meets a full-ownership block of the partner at as_of
Affecting(partner_id, as_of) ==
    LET rng == partner_holdings_ranges(resultado.blocks, partner_id)
    IN  {i \in StartsUpto(as_of) :
            \E k \in 1..Len(rng) : Units(tabla[i]) \cap Units(rng[k]) # {}}

\* C28: active_encumbrances lists for a holder exactly the units pledged or
\* seized on that holder by an event dated up to as_of and not cancelled by a
\* cancellation for the same creditor registered afterwards, and
\* active_encumbrances_affecting_partner lists exactly those units, creditor
\* by creditor, for the pledges and seizures that meet the partner's blocks;
\* a pledge registered after a cancellation is listed over its whole range.
C28_EncumbrancesInForce ==
    /\ ultimo.paso = "active_encumbrances" =>
           Listed(ultimo.out) =
               {p[2] : p \in InForce({i \in StartsUpto(ultimo.as_of) :
                                         tabla[i].socio_transmite = ultimo.partner_id},
                                     ultimo.as_of)}
    /\ ultimo.paso = "active_encumbrances_affecting_partner" =>
           ListedBy(ultimo.out) =
               InForce(Affecting(ultimo.partner_id, ultimo.as_of), ultimo.as_of)

\* the members of a company whose role is 'Presidente'
Presidents(bm, cid) == {i \in BoardIds(bm, cid) : bm[i].cargo = "Presidente"}

\* C29: whatever save_board_member and migrate_firmantes_to_board calls have
\* run, no company has two board members whose role is 'Presidente', and a
\* save_board_member call that raised left the board as it was.
C29_OnePresident ==
    /\ \A cid \in {1, 2} : Cardinality(Presidents(board_members, cid)) <= 1
    /\ (ultimo.paso = "save_board_member" /\ ultimo.raised) =>
           board_members = ultimo.antes

====
